---- MODULE Spec2Model ----
(***************************************************************************)
(* yajrpc: the JSON-RPC 2.0 message coercer (lib/coerce.ts) and the        *)
(* correlation engine createJrpc (lib/index.ts).                           *)
(*                                                                         *)
(* JavaScript values are records [t, n, s]: t is the value's kind, n the   *)
(* integer part of a number, s the text of a string (for a number: the     *)
(* fractional suffix, "" for an integer).  Every handler of the engine     *)
(* runs to completion on the single-threaded event loop, so each is one    *)
(* action.                                                                 *)
(***************************************************************************)
EXTENDS Integers, Sequences, FiniteSets, TLC

(***************************************************************************)
(* Bounds of the model                                                     *)
(***************************************************************************)
\* number of request() calls
MaxRequests == 2
\* number of handleRequest invocations whose promise is not settled yet
MaxInbound == 1
\* number of unsettled handleRequest invocations where the order of their
\* completion is looked at
MaxSuspended == 2
\* number of sendMessage calls the engine makes on the WebSocket adapter
MaxSends == 3
\* number of keys outside the six known ones in a decoded record
MaxUnknownKeys == 2

(***************************************************************************)
(* JavaScript values                                                       *)
(***************************************************************************)
Undefined == [t |-> "undefined", n |-> 0, s |-> ""]
Null == [t |-> "null", n |-> 0, s |-> ""]
Num(i) == [t |-> "number", n |-> i, s |-> ""]
\* the non-integer number i + 0.5
Half(i) == [t |-> "number", n |-> i, s |-> ".5"]
Str(x) == [t |-> "string", n |-> 0, s |-> x]
Bool(b) == [t |-> "boolean", n |-> IF b THEN 1 ELSE 0, s |-> ""]
\* a record (plain object) and an array, told apart by a tag
Obj(tag) == [t |-> "object", n |-> 0, s |-> tag]
Arr(tag) == [t |-> "array", n |-> 0, s |-> tag]

\* typeof v
TypeOf(v) == IF v.t \in {"null", "object", "array"} THEN "object" ELSE v.t

\* Number.isInteger(v)
IsInteger(v) == v.t = "number" /\ v.s = ""

\* a key that keeps the type of the id, as the key of a Map does
ToKeyTyped(v) ==
  IF v.t = "number" THEN ToString(v.n) \o v.s ELSE "string " \o v.s

\* String(v) of a string or a number: the property key an id turns into
ToKey(v) == IF v.t = "number" THEN ToString(v.n) \o v.s ELSE v.s

\* the value of an `error` field: a JavaScript value with the properties
\* code, message, data (undefined where the value has none); extra says
\* the object has further properties
ErrValue(v, code, message, data, extra) ==
  [t |-> v.t, n |-> v.n, s |-> v.s,
   code |-> code, message |-> message, data |-> data, extra |-> extra]
ErrPlain(v) == ErrValue(v, Undefined, Undefined, Undefined, FALSE)
ErrObj(code, message, data) == ErrValue(Obj(""), code, message, data, FALSE)
NoErrorField == ErrPlain(Undefined)

\* error: undefined in a { error, ... } result
NoError == "undefined"

\* a decoded wire value: a non-object value has t other than "object" and
\* no fields; other lists the keys outside the six known ones, in key order
RawMessage(t, jsonrpc, id, method, params, result, error, other) ==
  [t |-> t, jsonrpc |-> jsonrpc, id |-> id, method |-> method,
   params |-> params, result |-> result, error |-> error, other |-> other]

(***************************************************************************)
(* MessageCoercer (lib/coerce.ts)                                          *)
(***************************************************************************)
coerceParams(params) ==
  IF params.t # "undefined" /\ (TypeOf(params) # "object" \/ params.t = "null")
  THEN [error |-> "invalid params", params |-> Undefined]
  ELSE [error |-> NoError, params |-> params]

\* an error field check that takes any number as code
coerceErrorFieldAnyCode(error) ==
  IF error.t = "undefined"
  THEN [error |-> NoError, errorField |-> NoErrorField]
  ELSE IF TypeOf(error) # "object" \/ error.t = "null"
  THEN [error |-> "invalid error field", errorField |-> NoErrorField]
  ELSE IF TypeOf(error.code) # "number"
  THEN [error |-> "invalid field type for error.code", errorField |-> NoErrorField]
  ELSE IF TypeOf(error.message) # "string"
  THEN [error |-> "invalid field type for error.message", errorField |-> NoErrorField]
  ELSE [error |-> NoError,
        errorField |-> ErrObj(error.code, error.message, error.data)]

coerceErrorField(error) ==
  IF error.t = "undefined"
  THEN [error |-> NoError, errorField |-> NoErrorField]
  ELSE IF TypeOf(error) # "object" \/ error.t = "null"
  THEN [error |-> "invalid error field", errorField |-> NoErrorField]
  ELSE IF TypeOf(error.code) # "number"
  THEN [error |-> "invalid field type for error.code", errorField |-> NoErrorField]
  ELSE IF ~IsInteger(error.code)
  THEN [error |-> "error.code is not an integer", errorField |-> NoErrorField]
  ELSE IF TypeOf(error.message) # "string"
  THEN [error |-> "invalid field type for error.message", errorField |-> NoErrorField]
  ELSE [error |-> NoError,
        errorField |-> ErrObj(error.code, error.message, error.data)]

\* an id check that lets a boolean through as well
coerceIdBoolean(id) ==
  IF id.t = "undefined" THEN [error |-> NoError, id |-> Undefined]
  ELSE IF id.t = "null" THEN [error |-> NoError, id |-> Null]
  ELSE IF TypeOf(id) \in {"string", "number", "boolean"}
  THEN [error |-> NoError, id |-> id]
  ELSE [error |-> "invalid id type", id |-> Undefined]

coerceId(id) ==
  IF id.t = "undefined" THEN [error |-> NoError, id |-> Undefined]
  ELSE IF id.t = "null" THEN [error |-> NoError, id |-> Null]
  ELSE IF TypeOf(id) = "string" \/ TypeOf(id) = "number"
  THEN [error |-> NoError, id |-> id]
  ELSE [error |-> "invalid id type", id |-> Undefined]

\* an extraction that collects the other fields in reverse key order
extractJrpcFieldsReversed(messageObj) ==
  [jrpcFields |-> [jsonrpc |-> messageObj.jsonrpc, id |-> messageObj.id,
                   method |-> messageObj.method, params |-> messageObj.params,
                   result |-> messageObj.result, error |-> messageObj.error],
   otherFields |-> [i \in DOMAIN messageObj.other |->
                      messageObj.other[Len(messageObj.other) + 1 - i]]]

extractJrpcFields(messageObj) ==
  [jrpcFields |-> [jsonrpc |-> messageObj.jsonrpc, id |-> messageObj.id,
                   method |-> messageObj.method, params |-> messageObj.params,
                   result |-> messageObj.result, error |-> messageObj.error],
   otherFields |-> messageObj.other]

coerceMethod(method) ==
  IF method.t = "undefined" THEN [error |-> NoError, method |-> Undefined]
  ELSE IF TypeOf(method) # "string"
  THEN [error |-> "invalid field type for method", method |-> Undefined]
  ELSE [error |-> NoError, method |-> method]

\* jrpcFields: undefined in a failed result
NoFields ==
  [jsonrpc |-> Undefined, id |-> Undefined, method |-> Undefined,
   params |-> Undefined, result |-> Undefined, error |-> NoErrorField]

\* a field coercion that looks at the error field before the params
coerceJrcpFieldsErrorFirst(jrpcFields) ==
  LET idRes == coerceId(jrpcFields.id)
      methodRes == coerceMethod(jrpcFields.method)
      paramsRes == coerceParams(jrpcFields.params)
      errorRes == coerceErrorField(jrpcFields.error)
  IN IF TypeOf(jrpcFields.jsonrpc) # "string"
     THEN [error |-> "invalid field type for jsonrpc", jrpcFields |-> NoFields]
     ELSE IF idRes.error # NoError
     THEN [error |-> idRes.error, jrpcFields |-> NoFields]
     ELSE IF methodRes.error # NoError
     THEN [error |-> methodRes.error, jrpcFields |-> NoFields]
     ELSE IF errorRes.error # NoError
     THEN [error |-> errorRes.error, jrpcFields |-> NoFields]
     ELSE IF paramsRes.error # NoError
     THEN [error |-> paramsRes.error, jrpcFields |-> NoFields]
     ELSE [error |-> NoError,
           jrpcFields |-> [jsonrpc |-> jrpcFields.jsonrpc, id |-> idRes.id,
                           method |-> methodRes.method,
                           params |-> paramsRes.params,
                           result |-> jrpcFields.result,
                           error |-> errorRes.errorField]]

coerceJrcpFields(jrpcFields) ==
  LET idRes == coerceId(jrpcFields.id)
      methodRes == coerceMethod(jrpcFields.method)
      paramsRes == coerceParams(jrpcFields.params)
      errorRes == coerceErrorField(jrpcFields.error)
  IN IF TypeOf(jrpcFields.jsonrpc) # "string"
     THEN [error |-> "invalid field type for jsonrpc", jrpcFields |-> NoFields]
     ELSE IF idRes.error # NoError
     THEN [error |-> idRes.error, jrpcFields |-> NoFields]
     ELSE IF methodRes.error # NoError
     THEN [error |-> methodRes.error, jrpcFields |-> NoFields]
     ELSE IF paramsRes.error # NoError
     THEN [error |-> paramsRes.error, jrpcFields |-> NoFields]
     ELSE IF errorRes.error # NoError
     THEN [error |-> errorRes.error, jrpcFields |-> NoFields]
     ELSE [error |-> NoError,
           jrpcFields |-> [jsonrpc |-> jrpcFields.jsonrpc, id |-> idRes.id,
                           method |-> methodRes.method,
                           params |-> paramsRes.params,
                           result |-> jrpcFields.result,
                           error |-> errorRes.errorField]]

\* a TJsonRpcMessage; a field the variant does not have is undefined
Message(id, method, params, result, error) ==
  [jsonrpc |-> "2.0", id |-> id, method |-> method, params |-> params,
   result |-> result, error |-> error]

\* jrpcMessage: undefined in a failed result
NoMessage ==
  [jsonrpc |-> "", id |-> Undefined, method |-> Undefined,
   params |-> Undefined, result |-> Undefined, error |-> NoErrorField]

\* a notification check that does not ask for a method
coerceJrcpNotificationAnyMethod(jrpcFields) ==
  IF jrpcFields.id.t # "undefined"
  THEN [error |-> "notification must not have an id", jrpcNotification |-> NoMessage]
  ELSE IF jrpcFields.error.t # "undefined"
  THEN [error |-> "notification must not have an error (maybe id is missing and this is not a notification?)",
        jrpcNotification |-> NoMessage]
  ELSE IF jrpcFields.result.t # "undefined"
  THEN [error |-> "notification must not have a result (maybe id is missing and this is not a notification?)",
        jrpcNotification |-> NoMessage]
  ELSE [error |-> NoError,
        jrpcNotification |-> Message(Undefined, jrpcFields.method,
                                     jrpcFields.params, Undefined, NoErrorField)]

\* a notification check that lets a result through
coerceJrcpNotificationWithResult(jrpcFields) ==
  IF jrpcFields.id.t # "undefined"
  THEN [error |-> "notification must not have an id", jrpcNotification |-> NoMessage]
  ELSE IF jrpcFields.error.t # "undefined"
  THEN [error |-> "notification must not have an error (maybe id is missing and this is not a notification?)",
        jrpcNotification |-> NoMessage]
  ELSE IF jrpcFields.method.t = "undefined"
  THEN [error |-> "no method in notification", jrpcNotification |-> NoMessage]
  ELSE [error |-> NoError,
        jrpcNotification |-> Message(Undefined, jrpcFields.method,
                                     jrpcFields.params, Undefined, NoErrorField)]

coerceJrcpNotification(jrpcFields) ==
  IF jrpcFields.id.t # "undefined"
  THEN [error |-> "notification must not have an id", jrpcNotification |-> NoMessage]
  ELSE IF jrpcFields.error.t # "undefined"
  THEN [error |-> "notification must not have an error (maybe id is missing and this is not a notification?)",
        jrpcNotification |-> NoMessage]
  ELSE IF jrpcFields.result.t # "undefined"
  THEN [error |-> "notification must not have a result (maybe id is missing and this is not a notification?)",
        jrpcNotification |-> NoMessage]
  ELSE IF jrpcFields.method.t = "undefined"
  THEN [error |-> "no method in notification", jrpcNotification |-> NoMessage]
  ELSE [error |-> NoError,
        jrpcNotification |-> Message(Undefined, jrpcFields.method,
                                     jrpcFields.params, Undefined, NoErrorField)]

\* a request check that turns a null id down
coerceJrpcRequestWithoutNull(jrpcFields) ==
  IF jrpcFields.id.t = "undefined" \/ jrpcFields.id.t = "null"
  THEN [error |-> "request must have an id", jrpcRequest |-> NoMessage]
  ELSE IF jrpcFields.method.t = "undefined"
  THEN [error |-> "no method in request", jrpcRequest |-> NoMessage]
  ELSE IF jrpcFields.error.t # "undefined"
  THEN [error |-> "request must not have an error", jrpcRequest |-> NoMessage]
  ELSE IF jrpcFields.result.t # "undefined"
  THEN [error |-> "request must not have a result", jrpcRequest |-> NoMessage]
  ELSE [error |-> NoError,
        jrpcRequest |-> Message(jrpcFields.id, jrpcFields.method,
                                jrpcFields.params, Undefined, NoErrorField)]

coerceJrpcRequest(jrpcFields) ==
  IF jrpcFields.id.t = "undefined"
  THEN [error |-> "request must have an id", jrpcRequest |-> NoMessage]
  ELSE IF jrpcFields.method.t = "undefined"
  THEN [error |-> "no method in request", jrpcRequest |-> NoMessage]
  ELSE IF jrpcFields.error.t # "undefined"
  THEN [error |-> "request must not have an error", jrpcRequest |-> NoMessage]
  ELSE IF jrpcFields.result.t # "undefined"
  THEN [error |-> "request must not have a result", jrpcRequest |-> NoMessage]
  ELSE [error |-> NoError,
        jrpcRequest |-> Message(jrpcFields.id, jrpcFields.method,
                                jrpcFields.params, Undefined, NoErrorField)]

\* a response check that takes the error when a result comes with it
coerceJrcpResponseErrorWins(jrpcFields) ==
  LET errorRes == coerceErrorField(jrpcFields.error)
  IN IF jrpcFields.id.t = "undefined" \/ jrpcFields.id.t = "null"
     THEN [error |-> "response must have an id", jrpcResponse |-> NoMessage]
     ELSE IF errorRes.error # NoError
     THEN [error |-> errorRes.error, jrpcResponse |-> NoMessage]
     ELSE IF errorRes.errorField.t # "undefined"
     THEN [error |-> NoError,
           jrpcResponse |-> Message(jrpcFields.id, Undefined, Undefined,
                                    Undefined, errorRes.errorField)]
     ELSE IF jrpcFields.result.t = "undefined"
     THEN [error |-> "no result in response", jrpcResponse |-> NoMessage]
     ELSE [error |-> NoError,
           jrpcResponse |-> Message(jrpcFields.id, Undefined, Undefined,
                                    jrpcFields.result, NoErrorField)]

coerceJrcpResponse(jrpcFields) ==
  LET errorRes == coerceErrorField(jrpcFields.error)
  IN IF jrpcFields.id.t = "undefined" \/ jrpcFields.id.t = "null"
     THEN [error |-> "response must have an id", jrpcResponse |-> NoMessage]
     ELSE IF errorRes.error # NoError
     THEN [error |-> errorRes.error, jrpcResponse |-> NoMessage]
     ELSE IF errorRes.errorField.t # "undefined"
     THEN IF jrpcFields.result.t # "undefined"
          THEN [error |-> "both result and error in response",
                jrpcResponse |-> NoMessage]
          ELSE [error |-> NoError,
                jrpcResponse |-> Message(jrpcFields.id, Undefined, Undefined,
                                         Undefined, errorRes.errorField)]
     ELSE IF jrpcFields.result.t = "undefined"
     THEN [error |-> "no result in response", jrpcResponse |-> NoMessage]
     ELSE [error |-> NoError,
           jrpcResponse |-> Message(jrpcFields.id, Undefined, Undefined,
                                    jrpcFields.result, NoErrorField)]

\* a coercer that looks for unexpected fields before the version
coerceJrpcMessageFieldsFirst(message) ==
  LET extracted == extractJrpcFields(message)
      fieldsRes == coerceJrcpFields(extracted.jrpcFields)
      coerced == fieldsRes.jrpcFields
      notificationRes == coerceJrcpNotification(coerced)
      responseRes == coerceJrcpResponse(coerced)
      requestRes == coerceJrpcRequest(coerced)
  IN IF TypeOf(message) # "object" \/ message.t = "null"
     THEN [error |-> "invalid message", jrpcMessage |-> NoMessage]
     ELSE IF Len(extracted.otherFields) > 0
     THEN [error |-> "unexpected field \"" \o extracted.otherFields[1]
                     \o "\" in message",
           jrpcMessage |-> NoMessage]
     ELSE IF extracted.jrpcFields.jsonrpc # Str("2.0")
     THEN [error |-> "invalid jsonrpc version", jrpcMessage |-> NoMessage]
     ELSE IF fieldsRes.error # NoError
     THEN [error |-> fieldsRes.error, jrpcMessage |-> NoMessage]
     ELSE IF coerced.jsonrpc # Str("2.0")
     THEN [error |-> "invalid jsonrpc version", jrpcMessage |-> NoMessage]
     ELSE IF coerced.id.t = "undefined"
     THEN IF notificationRes.error # NoError
          THEN [error |-> notificationRes.error, jrpcMessage |-> NoMessage]
          ELSE [error |-> NoError, jrpcMessage |-> notificationRes.jrpcNotification]
     ELSE IF coerced.method.t = "undefined"
     THEN IF responseRes.error # NoError
          THEN [error |-> responseRes.error, jrpcMessage |-> NoMessage]
          ELSE [error |-> NoError, jrpcMessage |-> responseRes.jrpcResponse]
     ELSE IF requestRes.error # NoError
     THEN [error |-> requestRes.error, jrpcMessage |-> NoMessage]
     ELSE [error |-> NoError, jrpcMessage |-> requestRes.jrpcRequest]

coerceJrpcMessage(message) ==
  LET extracted == extractJrpcFields(message)
      fieldsRes == coerceJrcpFields(extracted.jrpcFields)
      coerced == fieldsRes.jrpcFields
      notificationRes == coerceJrcpNotification(coerced)
      responseRes == coerceJrcpResponse(coerced)
      requestRes == coerceJrpcRequest(coerced)
  IN IF TypeOf(message) # "object" \/ message.t = "null"
     THEN [error |-> "invalid message", jrpcMessage |-> NoMessage]
     ELSE IF extracted.jrpcFields.jsonrpc # Str("2.0")
     THEN [error |-> "invalid jsonrpc version", jrpcMessage |-> NoMessage]
     ELSE IF Len(extracted.otherFields) > 0
     THEN [error |-> "unexpected field \"" \o extracted.otherFields[1]
                     \o "\" in message",
           jrpcMessage |-> NoMessage]
     ELSE IF fieldsRes.error # NoError
     THEN [error |-> fieldsRes.error, jrpcMessage |-> NoMessage]
     ELSE IF coerced.jsonrpc # Str("2.0")
     THEN [error |-> "invalid jsonrpc version", jrpcMessage |-> NoMessage]
     ELSE IF coerced.id.t = "undefined"
     THEN IF notificationRes.error # NoError
          THEN [error |-> notificationRes.error, jrpcMessage |-> NoMessage]
          ELSE [error |-> NoError, jrpcMessage |-> notificationRes.jrpcNotification]
     ELSE IF coerced.method.t = "undefined"
     THEN IF responseRes.error # NoError
          THEN [error |-> responseRes.error, jrpcMessage |-> NoMessage]
          ELSE [error |-> NoError, jrpcMessage |-> responseRes.jrpcResponse]
     ELSE IF requestRes.error # NoError
     THEN [error |-> requestRes.error, jrpcMessage |-> NoMessage]
     ELSE [error |-> NoError, jrpcMessage |-> requestRes.jrpcRequest]

(***************************************************************************)
(* Engine (lib/index.ts, createJrpc)                                       *)
(***************************************************************************)
VARIABLES
  closed,            \* let closed
  pendingRequests,   \* let pendingRequests: own property key -> handle
  requestIdCounter,  \* let requestIdCounter
  timers,            \* the timer of each request id: none, armed, fired, cleared
  futures,           \* per request id: was a promise returned, and the values
                     \* its resolve function was called with
  issued,            \* the ids allocated by the request() calls, in call order
  handlers,          \* the handleRequest invocations whose promise is not
                     \* settled yet, in call order
  uncaught,          \* request ids whose timer callback threw a TypeError
  \* what the most recent call or callback did:
  last,              \* which one it was and how it ended
  sent,              \* the messages it passed to sendMessage, in call order
  notifications,     \* the handleNotification invocations it made
  resolutions,       \* the request ids whose resolve it called, in call order
  \* the coercer called on its own, coerceJrpcMessage({ message }):
  decoded,           \* the decoded value it is called with
  coerced,           \* what it returned: empty before the call, then one result
  dispatched,        \* what the registry server did with the accepted call:
                     \* empty before it is handed over, then one outcome
  \* a sendMessage that calls receivedMessage before it returns:
  reentered,         \* what those receivedMessage calls returned, in call order
  \* the WebSocket adapter (createWebSocketJrpc):
  readyState,        \* socket.readyState
  closedByUs,        \* let closedByUs
  connectionError,   \* let connectionError is defined
  sendQueue,         \* let sendQueue
  sendCalls,         \* the data of the sendMessage calls made, in call order
  socketSent,        \* the data passed to socket.send, in call order
  connectionErrors,  \* the errors onConnectionError was called with
  remoteCloses       \* the number of onRemoteClose calls

\* the state of the adapter
adapterVars == <<readyState, closedByUs, connectionError, sendQueue, sendCalls,
                 socketSent, connectionErrors, remoteCloses>>

vars == <<closed, pendingRequests, requestIdCounter, timers, futures, issued,
          handlers, uncaught, last, sent, notifications, resolutions,
          decoded, coerced, dispatched, reentered, adapterVars>>

RequestIds == 0 .. (MaxRequests - 1)

\* a TRequestResponse and a TRequestResult
Response(result, error) == [result |-> result, error |-> error]
NoResponse == Response(Undefined, NoErrorField)
RequestResult(error, response) == [error |-> error, response |-> response]

\* properties every object literal inherits from Object.prototype
ObjectPrototypeKeys ==
  {"constructor", "__proto__", "toString", "valueOf", "hasOwnProperty"}

\* pendingRequests[id]: an own entry, an inherited property (which is not
\* undefined and has no resolve method), or undefined
pendingRequestAt(table, id) ==
  IF ToKey(id) \in DOMAIN table THEN "own"
  ELSE IF ToKey(id) \in ObjectPrototypeKeys THEN "inherited"
  ELSE "undefined"

\* the part of the state a resolve function changes
ResolveState(p, t, f, r) ==
  [pendingRequests |-> p, timers |-> t, futures |-> f, resolutions |-> r]

\* clearTimeout(timeoutHandle): undefined and expired handles are ignored
clearTimeout(t, requestId, hasTimeout) ==
  IF hasTimeout /\ t[requestId] = "armed"
  THEN [t EXCEPT ![requestId] = "cleared"]
  ELSE t

\* a resolve function that leaves its entry in the table
resolveKeepsEntry(st, requestId, hasTimeout, result) ==
  ResolveState(
    st.pendingRequests,
    clearTimeout(st.timers, requestId, hasTimeout),
    [st.futures EXCEPT ![requestId].resolved = Append(@, result)],
    Append(st.resolutions, requestId))

\* the resolve function of the handle registered by request()
resolve(st, requestId, hasTimeout, result) ==
  ResolveState(
    [k \in DOMAIN st.pendingRequests \ {ToString(requestId)} |->
       st.pendingRequests[k]],
    clearTimeout(st.timers, requestId, hasTimeout),
    [st.futures EXCEPT ![requestId].resolved = Append(@, result)],
    Append(st.resolutions, requestId))

\* pendingRequest.resolve(result) for the own entry under key
resolveEntry(st, key, result) ==
  resolve(st, st.pendingRequests[key].requestId,
          st.pendingRequests[key].hasTimeout, result)

\* a receivedResponse that finds the entry and never calls its resolve
receivedResponseUnresolved(st, id, response) ==
  IF pendingRequestAt(st.pendingRequests, id) = "undefined"
  THEN [threw |-> FALSE, error |-> "received response for non-pending id",
        st |-> st]
  ELSE [threw |-> FALSE, error |-> NoError, st |-> st]

\* a receivedResponse that hands an ErrorResponse to the caller as a failed
\* request: the remote message becomes the error, the response is dropped
receivedResponseAsFailure(st, id, response) ==
  CASE pendingRequestAt(st.pendingRequests, id) = "undefined" ->
         [threw |-> FALSE, error |-> "received response for non-pending id",
          st |-> st]
    [] pendingRequestAt(st.pendingRequests, id) = "inherited" ->
         [threw |-> TRUE, error |-> "pendingRequest.resolve is not a function",
          st |-> st]
    [] OTHER ->
         [threw |-> FALSE, error |-> NoError,
          st |-> resolveEntry(st, ToKey(id),
                              IF response.error.t # "undefined"
                              THEN RequestResult(response.error.message.s,
                                                 NoResponse)
                              ELSE RequestResult(NoError, response))]

receivedResponse(st, id, response) ==
  CASE pendingRequestAt(st.pendingRequests, id) = "undefined" ->
         [threw |-> FALSE, error |-> "received response for non-pending id",
          st |-> st]
    [] pendingRequestAt(st.pendingRequests, id) = "inherited" ->
         [threw |-> TRUE, error |-> "pendingRequest.resolve is not a function",
          st |-> st]
    [] OTHER ->
         [threw |-> FALSE, error |-> NoError,
          st |-> resolveEntry(st, ToKey(id),
                              RequestResult(NoError, response))]

\* the call a handleRequest invocation was made with
receivedRequest(id, method, params) ==
  [id |-> id, method |-> method, params |-> params]

\* how a call or callback ended: op names it, id is the id of the request
\* or message it was about, error what it returned (or threw, if threw)
Last(op, threw, error, id) ==
  [op |-> op, threw |-> threw, error |-> error, id |-> id]

Current == ResolveState(pendingRequests, timers, futures, <<>>)

\* what receivedMessage does on an open connection: the error it returns or
\* throws, the state after the resolve it ran, and the handler invocations
\* it made
Outcome(threw, error, st, id, notification, request) ==
  [threw |-> threw, error |-> error, st |-> st, id |-> id,
   notification |-> notification, request |-> request]

\* a notification handler that is called without the params
handleNotificationWithoutParams(method, params) ==
  <<[method |-> method, params |-> Undefined]>>

\* handleNotification({ method, params }): the invocation made
handleNotification(method, params) ==
  <<[method |-> method, params |-> params]>>

\* a dispatch without the null id check: a null id counts as an id
dispatchNullIds(st, jrpcMessage) ==
  LET answered(r) == Outcome(r.threw, r.error, r.st, jrpcMessage.id, <<>>, <<>>)
  IN IF jrpcMessage.id.t = "undefined"
     THEN Outcome(FALSE, NoError, st, Undefined,
                  <<[method |-> jrpcMessage.method,
                     params |-> jrpcMessage.params]>>, <<>>)
     ELSE IF jrpcMessage.result.t # "undefined"
     THEN answered(receivedResponse(st, jrpcMessage.id,
                                    Response(jrpcMessage.result, NoErrorField)))
     ELSE IF jrpcMessage.error.t # "undefined"
     THEN answered(receivedResponse(st, jrpcMessage.id,
                                    Response(Undefined, jrpcMessage.error)))
     ELSE Outcome(FALSE, NoError, st, jrpcMessage.id, <<>>,
                  <<receivedRequest(jrpcMessage.id, jrpcMessage.method,
                                    jrpcMessage.params)>>)

\* receivedMessage after a successful coercion
dispatch(st, jrpcMessage) ==
  LET answered(r) == Outcome(r.threw, r.error, r.st, jrpcMessage.id, <<>>, <<>>)
  IN IF jrpcMessage.id.t = "null"
     THEN Outcome(FALSE, "this library does not support null ids", st, Null,
                  <<>>, <<>>)
     ELSE IF jrpcMessage.id.t = "undefined"
     THEN Outcome(FALSE, NoError, st, Undefined,
                  handleNotification(jrpcMessage.method, jrpcMessage.params),
                  <<>>)
     ELSE IF jrpcMessage.result.t # "undefined"
     THEN answered(receivedResponse(st, jrpcMessage.id,
                                    Response(jrpcMessage.result, NoErrorField)))
     ELSE IF jrpcMessage.error.t # "undefined"
     THEN answered(receivedResponse(st, jrpcMessage.id,
                                    Response(Undefined, jrpcMessage.error)))
     ELSE Outcome(FALSE, NoError, st, jrpcMessage.id, <<>>,
                  <<receivedRequest(jrpcMessage.id, jrpcMessage.method,
                                    jrpcMessage.params)>>)

\* receivedMessage on an open connection, without the coercion check: the
\* coercer's verdict is not looked at
receivedMessageUnchecked(st, message) ==
  dispatch(st, coerceJrpcMessage(message).jrpcMessage)

receivedMessageOutcome(st, message) ==
  IF coerceJrpcMessage(message).error # NoError
  THEN Outcome(FALSE, coerceJrpcMessage(message).error, st, Undefined,
               <<>>, <<>>)
  ELSE dispatch(st, coerceJrpcMessage(message).jrpcMessage)

\* receivedMessage past its closed check
receivedMessageOpen(message) ==
  LET out == receivedMessageOutcome(Current, message)
  IN /\ pendingRequests' = out.st.pendingRequests
     /\ timers' = out.st.timers
     /\ futures' = out.st.futures
     /\ resolutions' = out.st.resolutions
     /\ notifications' = out.notification
     /\ handlers' = handlers \o out.request
     /\ last' = Last("receivedMessage", out.threw, out.error, out.id)
     /\ sent' = <<>>
     /\ UNCHANGED <<closed, requestIdCounter, issued, uncaught>>
     /\ UNCHANGED <<decoded, coerced, dispatched>>

\* a call that throws at once
throws(op, error) ==
  /\ last' = Last(op, TRUE, error, Undefined)
  /\ sent' = <<>>
  /\ notifications' = <<>>
  /\ resolutions' = <<>>
  /\ UNCHANGED <<closed, pendingRequests, requestIdCounter, timers, futures,
                 issued, handlers, uncaught>>
  /\ UNCHANGED <<decoded, coerced, dispatched>>

\* a receivedMessage without the closed check
receivedMessageUnguarded(message) == receivedMessageOpen(message)

receivedMessage(message) ==
  IF closed
  THEN throws("receivedMessage", "connection closed")
  ELSE receivedMessageOpen(message)

\* decreasing numeric order of the keys
RECURSIVE ObjectKeysDescending(_)
ObjectKeysDescending(table) ==
  IF DOMAIN table = {} THEN <<>>
  ELSE LET first == CHOOSE k \in DOMAIN table :
                      \A j \in DOMAIN table :
                        table[k].requestId >= table[j].requestId
       IN <<first>>
          \o ObjectKeysDescending([k \in DOMAIN table \ {first} |-> table[k]])

\* Object.keys(table): the own keys; keys that are array indices come in
\* ascending numeric order, and the table has no others
RECURSIVE ObjectKeys(_)
ObjectKeys(table) ==
  IF DOMAIN table = {} THEN <<>>
  ELSE LET first == CHOOSE k \in DOMAIN table :
                      \A j \in DOMAIN table :
                        table[k].requestId <= table[j].requestId
       IN <<first>> \o ObjectKeys([k \in DOMAIN table \ {first} |-> table[k]])

\* Object.keys(pendingRequests).forEach(id => pendingRequests[id].resolve(..))
RECURSIVE forEachResolve(_, _, _)
forEachResolve(st, keys, result) ==
  IF keys = <<>> THEN st
  ELSE forEachResolve(resolveEntry(st, Head(keys), result), Tail(keys), result)

\* close past its closed check
closeOpen ==
  LET st == forEachResolve(Current, ObjectKeys(pendingRequests),
                           RequestResult("connection closed", NoResponse))
  IN /\ pendingRequests' = st.pendingRequests
     /\ timers' = st.timers
     /\ futures' = st.futures
     /\ resolutions' = st.resolutions
     /\ closed' = TRUE
     /\ last' = Last("close", FALSE, NoError, Undefined)
     /\ sent' = <<>>
     /\ notifications' = <<>>
     /\ UNCHANGED <<requestIdCounter, issued, handlers, uncaught>>
     /\ UNCHANGED <<decoded, coerced, dispatched>>

close ==
  IF closed
  THEN throws("close", "connection already closed")
  ELSE closeOpen

\* a table that is handed back without the new handle
registerNothing(table, requestId, hasTimeout) == table

\* { ...pendingRequests, [requestId]: { resolve, timeoutHandle } }
register(table, requestId, hasTimeout) ==
  [k \in DOMAIN table \cup {ToString(requestId)} |->
     IF k = ToString(requestId)
     THEN [requestId |-> requestId, hasTimeout |-> hasTimeout]
     ELSE table[k]]

\* an id counter that is never advanced
sameRequestId(counter) == counter

\* requestIdCounter += 1
nextRequestId(counter) == counter + 1

\* a request that arms its timer only once sendMessage has returned
requestTimerAfterSend(method, params, timeoutMs, sendThrows) ==
  /\ requestIdCounter' = nextRequestId(requestIdCounter)
  /\ issued' = Append(issued, requestIdCounter)
  /\ timers' = IF timeoutMs.t # "undefined" /\ ~sendThrows
               THEN [timers EXCEPT ![requestIdCounter] = "armed"]
               ELSE timers
  /\ sent' = <<Message(Num(requestIdCounter), method, params, Undefined,
                       NoErrorField)>>
  /\ IF sendThrows
     THEN /\ last' = Last("request", TRUE, "sendMessage failed",
                          Num(requestIdCounter))
          /\ UNCHANGED <<pendingRequests, futures>>
     ELSE /\ pendingRequests' = register(pendingRequests, requestIdCounter,
                                         timeoutMs.t # "undefined")
          /\ futures' = [futures EXCEPT ![requestIdCounter].returned = TRUE]
          /\ last' = Last("request", FALSE, NoError, Num(requestIdCounter))
  /\ notifications' = <<>>
  /\ resolutions' = <<>>
  /\ UNCHANGED <<closed, handlers, uncaught>>
  /\ UNCHANGED <<decoded, coerced, dispatched>>

\* a request that throws on a closed engine, as receivedMessage does
requestGuarded(method, params, timeoutMs, sendThrows) ==
  IF closed
  THEN /\ throws("request", "connection closed")
  ELSE /\ requestIdCounter' = nextRequestId(requestIdCounter)
       /\ issued' = Append(issued, requestIdCounter)
       /\ timers' = IF timeoutMs.t # "undefined"
                    THEN [timers EXCEPT ![requestIdCounter] = "armed"]
                    ELSE timers
       /\ sent' = <<Message(Num(requestIdCounter), method, params, Undefined,
                            NoErrorField)>>
       /\ IF sendThrows
          THEN /\ last' = Last("request", TRUE, "sendMessage failed",
                               Num(requestIdCounter))
               /\ UNCHANGED <<pendingRequests, futures>>
          ELSE /\ pendingRequests' = register(pendingRequests,
                                              requestIdCounter,
                                              timeoutMs.t # "undefined")
               /\ futures' = [futures EXCEPT ![requestIdCounter].returned
                                               = TRUE]
               /\ last' = Last("request", FALSE, NoError,
                               Num(requestIdCounter))
       /\ notifications' = <<>>
       /\ resolutions' = <<>>
       /\ UNCHANGED <<closed, handlers, uncaught>>
       /\ UNCHANGED <<decoded, coerced, dispatched>>

\* request({ method, params, timeoutMs }); sendThrows: sendMessage throws,
\* and the exception leaves request() before the promise is created
request(method, params, timeoutMs, sendThrows) ==
  LET requestId == requestIdCounter
  IN /\ requestIdCounter' = nextRequestId(requestIdCounter)
     /\ issued' = Append(issued, requestId)
     /\ timers' = IF timeoutMs.t # "undefined"
                  THEN [timers EXCEPT ![requestId] = "armed"]
                  ELSE timers
     /\ sent' = <<Message(Num(requestId), method, params, Undefined,
                          NoErrorField)>>
     /\ IF sendThrows
        THEN /\ last' = Last("request", TRUE, "sendMessage failed",
                             Num(requestId))
             /\ UNCHANGED <<pendingRequests, futures>>
        ELSE /\ pendingRequests' = register(pendingRequests, requestId,
                                            timeoutMs.t # "undefined")
             /\ futures' = [futures EXCEPT ![requestId].returned = TRUE]
             /\ last' = Last("request", FALSE, NoError, Num(requestId))
     /\ notifications' = <<>>
     /\ resolutions' = <<>>
     /\ UNCHANGED <<closed, handlers, uncaught>>
     /\ UNCHANGED <<decoded, coerced, dispatched>>

\* what a receivedMessage call made from inside sendMessage returned or
\* threw, for the Request with requestId
Reentered(requestId, message, threw, error) ==
  [requestId |-> requestId, id |-> message.id, threw |-> threw,
   error |-> error]

\* a request() that registers its entry before it calls sendMessage
requestReentrantRegisteredFirst(method, params, timeoutMs, message) ==
  LET requestId == requestIdCounter
      hasTimeout == timeoutMs.t # "undefined"
      armed == IF hasTimeout
               THEN [timers EXCEPT ![requestId] = "armed"]
               ELSE timers
      inner == receivedMessageOutcome(
                 ResolveState(register(pendingRequests, requestId, hasTimeout),
                              armed,
                              [futures EXCEPT ![requestId].returned = TRUE],
                              <<>>),
                 message)
  IN /\ ~closed
     /\ requestIdCounter' = nextRequestId(requestIdCounter)
     /\ issued' = Append(issued, requestId)
     /\ sent' = <<Message(Num(requestId), method, params, Undefined,
                          NoErrorField)>>
     /\ reentered' = Append(reentered, Reentered(requestId, message,
                                                 inner.threw, inner.error))
     /\ pendingRequests' = inner.st.pendingRequests
     /\ timers' = inner.st.timers
     /\ futures' = inner.st.futures
     /\ resolutions' = inner.st.resolutions
     /\ notifications' = inner.notification
     /\ handlers' = handlers \o inner.request
     /\ last' = Last("request", FALSE, NoError, Num(requestId))
     /\ UNCHANGED <<closed, uncaught>>
     /\ UNCHANGED <<decoded, coerced, dispatched>>

\* request({ method, params, timeoutMs }) with a sendMessage that calls
\* receivedMessage({ message }) before it returns, as a peer that is wired
\* synchronously and answers at once does: the call sees the id taken and
\* the timer armed, and no entry yet; an exception of receivedMessage
\* leaves sendMessage and request()
requestReentrant(method, params, timeoutMs, message) ==
  LET requestId == requestIdCounter
      hasTimeout == timeoutMs.t # "undefined"
      armed == IF hasTimeout
               THEN [timers EXCEPT ![requestId] = "armed"]
               ELSE timers
      inner == receivedMessageOutcome(
                 ResolveState(pendingRequests, armed, futures, <<>>), message)
  IN /\ requestIdCounter' = nextRequestId(requestIdCounter)
     /\ issued' = Append(issued, requestId)
     /\ sent' = <<Message(Num(requestId), method, params, Undefined,
                          NoErrorField)>>
     /\ IF closed
        THEN /\ reentered' = Append(reentered,
                                    Reentered(requestId, message, TRUE,
                                              "connection closed"))
             /\ timers' = armed
             /\ last' = Last("request", TRUE, "connection closed",
                             Num(requestId))
             /\ notifications' = <<>>
             /\ resolutions' = <<>>
             /\ UNCHANGED <<pendingRequests, futures, handlers>>
        ELSE /\ reentered' = Append(reentered,
                                    Reentered(requestId, message, inner.threw,
                                              inner.error))
             /\ timers' = inner.st.timers
             /\ resolutions' = inner.st.resolutions
             /\ notifications' = inner.notification
             /\ handlers' = handlers \o inner.request
             /\ IF inner.threw
                THEN /\ pendingRequests' = inner.st.pendingRequests
                     /\ futures' = inner.st.futures
                     /\ last' = Last("request", TRUE, inner.error,
                                     Num(requestId))
                ELSE /\ pendingRequests' = register(inner.st.pendingRequests,
                                                    requestId, hasTimeout)
                     /\ futures' = [inner.st.futures
                                      EXCEPT ![requestId].returned = TRUE]
                     /\ last' = Last("request", FALSE, NoError,
                                     Num(requestId))
     /\ UNCHANGED <<closed, uncaught>>
     /\ UNCHANGED <<decoded, coerced, dispatched>>

\* a notify that allocates an id and sends it with the message
notifyWithId(method, params) ==
  /\ sent' = <<Message(Num(requestIdCounter), method, params, Undefined,
                       NoErrorField)>>
  /\ requestIdCounter' = requestIdCounter + 1
  /\ last' = Last("notify", FALSE, NoError, Undefined)
  /\ notifications' = <<>>
  /\ resolutions' = <<>>
  /\ UNCHANGED <<closed, pendingRequests, timers, futures, issued, handlers,
                 uncaught>>
  /\ UNCHANGED <<decoded, coerced, dispatched>>

notify(method, params) ==
  /\ sent' = <<Message(Undefined, method, params, Undefined, NoErrorField)>>
  /\ last' = Last("notify", FALSE, NoError, Undefined)
  /\ notifications' = <<>>
  /\ resolutions' = <<>>
  /\ UNCHANGED <<closed, pendingRequests, requestIdCounter, timers, futures,
                 issued, handlers, uncaught>>
  /\ UNCHANGED <<decoded, coerced, dispatched>>

\* the setTimeout callback of request(): the timer of requestId expires
timeoutCallback(requestId) ==
  /\ timers[requestId] = "armed"
  /\ LET expired == [timers EXCEPT ![requestId] = "fired"]
         st == ResolveState(pendingRequests, expired, futures, <<>>)
     IN IF pendingRequestAt(pendingRequests, Num(requestId)) = "own"
        THEN LET after == resolveEntry(st, ToString(requestId),
                                       RequestResult("timeout", NoResponse))
             IN /\ pendingRequests' = after.pendingRequests
                /\ timers' = after.timers
                /\ futures' = after.futures
                /\ resolutions' = after.resolutions
                /\ last' = Last("timeout", FALSE, NoError, Num(requestId))
                /\ UNCHANGED uncaught
        ELSE /\ timers' = expired
             /\ uncaught' = uncaught \cup {requestId}
             /\ last' = Last("timeout", TRUE,
                             "Cannot read properties of undefined",
                             Num(requestId))
             /\ resolutions' = <<>>
             /\ UNCHANGED <<pendingRequests, futures>>
  /\ sent' = <<>>
  /\ notifications' = <<>>
  /\ UNCHANGED <<closed, requestIdCounter, issued, handlers>>
  /\ UNCHANGED <<decoded, coerced, dispatched>>

\* a .then callback that tests the result for truthiness
responseMessagesTruthy(id, response) ==
  IF response.error.t # "undefined"
  THEN <<Message(id, Undefined, Undefined, Undefined, response.error)>>
  ELSE IF response.result.t \notin {"undefined", "null"}
  THEN <<Message(id, Undefined, Undefined, response.result, NoErrorField)>>
  ELSE <<>>

\* the messages the .then callback of handleRequest sends for a response
responseMessages(id, response) ==
  IF response.error.t # "undefined"
  THEN <<Message(id, Undefined, Undefined, Undefined, response.error)>>
  ELSE IF response.result.t # "undefined"
  THEN <<Message(id, Undefined, Undefined, response.result, NoErrorField)>>
  ELSE <<>>

\* a sequence without its h-th element
Without(seq, h) ==
  [i \in 1 .. (Len(seq) - 1) |-> IF i < h THEN seq[i] ELSE seq[i + 1]]

\* a .then callback that sends nothing once the engine is closed
handleRequestThenWhileOpen(h, response) ==
  /\ h \in DOMAIN handlers
  /\ handlers' = Without(handlers, h)
  /\ sent' = IF closed THEN <<>>
             ELSE responseMessages(handlers[h].id, response)
  /\ last' = Last("handled", FALSE, NoError, handlers[h].id)
  /\ notifications' = <<>>
  /\ resolutions' = <<>>
  /\ UNCHANGED <<closed, pendingRequests, requestIdCounter, timers, futures,
                 issued, uncaught>>
  /\ UNCHANGED <<decoded, coerced, dispatched>>

\* a .then callback that answers the requests in the order of their arrival
handleRequestThenInArrivalOrder(h, response) ==
  /\ h \in DOMAIN handlers
  /\ handlers' = Without(handlers, h)
  /\ sent' = responseMessages(handlers[1].id, response)
  /\ last' = Last("handled", FALSE, NoError, handlers[h].id)
  /\ notifications' = <<>>
  /\ resolutions' = <<>>
  /\ UNCHANGED <<closed, pendingRequests, requestIdCounter, timers, futures,
                 issued, uncaught>>
  /\ UNCHANGED <<decoded, coerced, dispatched>>

\* the promise of the h-th unsettled handler invocation fulfils with response
handleRequestThen(h, response) ==
  /\ h \in DOMAIN handlers
  /\ handlers' = Without(handlers, h)
  /\ sent' = responseMessages(handlers[h].id, response)
  /\ last' = Last("handled", FALSE, NoError, handlers[h].id)
  /\ notifications' = <<>>
  /\ resolutions' = <<>>
  /\ UNCHANGED <<closed, pendingRequests, requestIdCounter, timers, futures,
                 issued, uncaught>>
  /\ UNCHANGED <<decoded, coerced, dispatched>>

\* a rejection callback that answers the request with an internal error
handleRequestRejectedAnswered(h) ==
  /\ h \in DOMAIN handlers
  /\ handlers' = Without(handlers, h)
  /\ sent' = <<Message(handlers[h].id, Undefined, Undefined, Undefined,
                       ErrObj(Num(-32603), Str("Internal error"), Undefined))>>
  /\ last' = Last("handled", TRUE, "handler rejected", handlers[h].id)
  /\ notifications' = <<>>
  /\ resolutions' = <<>>
  /\ UNCHANGED <<closed, pendingRequests, requestIdCounter, timers, futures,
                 issued, uncaught>>
  /\ UNCHANGED <<decoded, coerced, dispatched>>

\* the promise of the h-th unsettled handler invocation rejects: .then has
\* no rejection callback, nothing runs
handleRequestRejected(h) ==
  /\ h \in DOMAIN handlers
  /\ handlers' = Without(handlers, h)
  /\ sent' = <<>>
  /\ last' = Last("handled", TRUE, "handler rejected", handlers[h].id)
  /\ notifications' = <<>>
  /\ resolutions' = <<>>
  /\ UNCHANGED <<closed, pendingRequests, requestIdCounter, timers, futures,
                 issued, uncaught>>
  /\ UNCHANGED <<decoded, coerced, dispatched>>

(***************************************************************************)
(* MethodRegistry, requests variant (lib/definitions/requests.ts)          *)
(***************************************************************************)
\* parser.parse({ raw }) of a TObjectParser the caller supplies: "string"
\* accepts the strings, "optional" every value, undefined included, and
\* "record" the records {value: x}, which it turns into the string x
parse(parser, raw) ==
  IF parser = "string" /\ raw.t # "string"
  THEN [error |-> "not a string", value |-> Undefined]
  ELSE IF parser = "record" /\ raw.t # "object"
  THEN [error |-> "not a record", value |-> Undefined]
  ELSE IF parser = "record"
  THEN [error |-> NoError, value |-> Str(raw.s)]
  ELSE [error |-> NoError, value |-> raw]

\* parser.format({ value }): "record" wraps the string x into {value: x}
format(parser, value) ==
  IF parser = "record" THEN Obj(value.s) ELSE value

\* what a client method returns: error is the message of the Error (or
\* undefined), cause its cause
ClientResult(error, cause, result) ==
  [error |-> error, cause |-> cause, result |-> result]

\* a request client method that passes a timeout of 100 ms
clientRequestWithTimeout(definitions, name, value) ==
  [method |-> Str(name),
   params |-> format(definitions[name].paramsParser, value),
   timeoutMs |-> Num(100)]

\* the arguments a request client method of createClient calls request()
\* with: no timeoutMs
clientRequest(definitions, name, value) ==
  [method |-> Str(name),
   params |-> format(definitions[name].paramsParser, value),
   timeoutMs |-> Undefined]

\* the arguments a notification client method calls notify() with
clientNotify(definitions, name, value) ==
  [method |-> Str(name),
   params |-> format(definitions[name].paramsParser, value)]

\* a client method that hands the wire result over as it came
clientMethodUnparsed(resultParser, requestResult) ==
  IF requestResult.error # NoError
  THEN ClientResult("failed to execute request", requestResult.error,
                    Undefined)
  ELSE ClientResult(NoError, NoError, requestResult.response.result)

\* the client method of createClient after `await request(...)` gave
\* requestResult
clientMethod(resultParser, requestResult) ==
  LET parsed == parse(resultParser, requestResult.response.result)
  IN IF requestResult.error # NoError
     THEN ClientResult("failed to execute request", requestResult.error,
                       Undefined)
     ELSE IF parsed.error # NoError
     THEN ClientResult("failed to parse result", parsed.error, Undefined)
     ELSE ClientResult(NoError, NoError, parsed.value)

\* definitions[method] of an object literal: an own definition, a property
\* inherited from Object.prototype (truthy, without parsers), or undefined
definitionAt(definitions, method) ==
  IF method.s \in DOMAIN definitions THEN "own"
  ELSE IF method.s \in ObjectPrototypeKeys THEN "inherited"
  ELSE "undefined"

\* what a dispatcher of createServer did with a call: which of the three
\* callbacks it invoked (none if it threw first), the value the handler
\* got, and the response the dispatcher's promise fulfils with
Dispatched(invoked, threw, value, response) ==
  [invoked |-> invoked, threw |-> threw, value |-> value,
   response |-> response]

\* a dispatcher that answers null where the encoded return value is
\* undefined
handleRequestNullResult(definitions, method, params, fallback, returned) ==
  CASE definitionAt(definitions, method) = "undefined" ->
         Dispatched("handleUnknownRequest", FALSE, Undefined, fallback)
    [] definitionAt(definitions, method) = "inherited" ->
         Dispatched("none", TRUE, Undefined, NoResponse)
    [] parse(definitions[method.s].paramsParser, params).error # NoError ->
         Dispatched("handleParametersParseError", FALSE, Undefined, fallback)
    [] OTHER ->
         Dispatched("handler", FALSE,
                    parse(definitions[method.s].paramsParser, params).value,
                    Response(IF format(definitions[method.s].resultParser,
                                       returned) = Undefined
                             THEN Null
                             ELSE format(definitions[method.s].resultParser,
                                         returned),
                             NoErrorField))

\* a dispatcher that hands the params to the handler as they came
handleRequestUnparsed(definitions, method, params, fallback, returned) ==
  CASE definitionAt(definitions, method) = "undefined" ->
         Dispatched("handleUnknownRequest", FALSE, Undefined, fallback)
    [] definitionAt(definitions, method) = "inherited" ->
         Dispatched("none", TRUE, Undefined, NoResponse)
    [] OTHER ->
         Dispatched("handler", FALSE, params,
                    Response(format(definitions[method.s].resultParser,
                                    returned),
                             NoErrorField))

\* handleRequest of createServer (requests.ts); fallback is what the
\* fallback callbacks answer, returned what the handler returns
handleRequest(definitions, method, params, fallback, returned) ==
  CASE definitionAt(definitions, method) = "undefined" ->
         Dispatched("handleUnknownRequest", FALSE, Undefined, fallback)
    [] definitionAt(definitions, method) = "inherited" ->
         \* definition.paramsParser is undefined: .parse throws a TypeError
         Dispatched("none", TRUE, Undefined, NoResponse)
    [] OTHER ->
         LET definition == definitions[method.s]
             parseResult == parse(definition.paramsParser, params)
         IN IF parseResult.error # NoError
            THEN Dispatched("handleParametersParseError", FALSE, Undefined,
                            fallback)
            ELSE Dispatched("handler", FALSE, parseResult.value,
                            Response(format(definition.resultParser, returned),
                                     NoErrorField))

\* handleNotification of createServer (notification.ts)
handleNotificationOf(definitions, method, params) ==
  CASE definitionAt(definitions, method) = "undefined" ->
         Dispatched("handleUnknownNotification", FALSE, Undefined, NoResponse)
    [] definitionAt(definitions, method) = "inherited" ->
         Dispatched("none", TRUE, Undefined, NoResponse)
    [] OTHER ->
         LET definition == definitions[method.s]
             parseResult == parse(definition.paramsParser, params)
         IN IF parseResult.error # NoError
            THEN Dispatched("handleParametersParseError", FALSE, Undefined,
                            NoResponse)
            ELSE Dispatched("handler", FALSE, parseResult.value, NoResponse)

(***************************************************************************)
(* PeerCombinator (createCombined)                                         *)
(***************************************************************************)
\* the registries a side is built from: those of its servers and those of
\* its outgoing clients
Side(server, client) == [server |-> server, client |-> client]

\* a side A whose outgoing clients come from its own registries
sideAOwnClients(sideADefinitions, sideBDefinitions) ==
  Side(sideADefinitions, sideADefinitions)

sideA(sideADefinitions, sideBDefinitions) ==
  Side(sideADefinitions, sideBDefinitions)

sideB(sideADefinitions, sideBDefinitions) ==
  Side(sideBDefinitions, sideADefinitions)

(***************************************************************************)
(* The environment: callers of the engine, the peer, the timers            *)
(***************************************************************************)
Methods == {Str("m")}
Params == {Obj("p")}
Timeouts == {Undefined, Num(100)}

\* an error object as the peer sends it, with a property besides the three
RemoteError ==
  ErrValue(Obj(""), Num(-32600), Str("Invalid Request"), Obj("details"), TRUE)

ResultResponse(id, result) ==
  RawMessage("object", Str("2.0"), id, Undefined, Undefined, result,
             NoErrorField, <<>>)
ErrorResponse(id, error) ==
  RawMessage("object", Str("2.0"), id, Undefined, Undefined, Undefined,
             error, <<>>)
RequestMessage(id, method, params) ==
  RawMessage("object", Str("2.0"), id, method, params, Undefined,
             NoErrorField, <<>>)

\* Responses: for every id the engine can issue and one it never issues,
\* and for string ids
ResponseMessages ==
  {ResultResponse(Num(i), Str("ok")) : i \in 0 .. MaxRequests}
  \cup {ErrorResponse(Num(i), RemoteError) : i \in 0 .. MaxRequests}
  \cup {ResultResponse(Num(0), Null)}
  \cup {ResultResponse(Str(k), Str("ok")) : k \in {"1", "x", "constructor"}}

RequestMessages ==
  {RequestMessage(Num(42), Str("m"), Obj("p")),
   RequestMessage(Str("r"), Str("m"), Undefined),
   RequestMessage(Null, Str("m"), Undefined)}

NotificationMessages ==
  {RequestMessage(Undefined, Str("n"), Arr("a"))}

\* values the coercer rejects
MalformedMessages ==
  {RawMessage("string", Undefined, Undefined, Undefined, Undefined, Undefined,
              NoErrorField, <<>>),
   RawMessage("object", Str("1.0"), Num(0), Undefined, Undefined, Str("ok"),
              NoErrorField, <<>>),
   RawMessage("object", Str("2.0"), Undefined, Str("m"), Undefined, Undefined,
              NoErrorField, <<"extra">>),
   RawMessage("object", Str("2.0"), Num(0), Undefined, Undefined, Str("ok"),
              RemoteError, <<>>),
   RawMessage("object", Str("2.0"), Null, Undefined, Undefined, Str("ok"),
              NoErrorField, <<>>)}

InboundMessages ==
  ResponseMessages \cup RequestMessages \cup NotificationMessages
  \cup MalformedMessages

\* the result parsers of the method definitions
ResultParsers == {"string", "optional"}

\* what a request handler's promise can fulfil with
HandlerResponses ==
  {Response(Str("done"), NoErrorField),
   Response(Null, NoErrorField),
   Response(Undefined, ErrObj(Num(-32601), Str("Method not found"), Undefined)),
   NoResponse}

\* the peer sends no further Request while MaxInbound handlers are running
Admissible(message) ==
  Len(handlers) + Len(receivedMessageOutcome(Current, message).request)
    <= MaxInbound

\* createJrpc(...)
createJrpc ==
  /\ closed = FALSE
  /\ pendingRequests = [k \in {} |-> [requestId |-> 0, hasTimeout |-> FALSE]]
  /\ requestIdCounter = 0
  /\ timers = [i \in RequestIds |-> "none"]
  /\ futures = [i \in RequestIds |-> [returned |-> FALSE, resolved |-> <<>>]]
  /\ issued = <<>>
  /\ sent = <<>>
  /\ handlers = <<>>
  /\ notifications = <<>>
  /\ resolutions = <<>>
  /\ uncaught = {}
  /\ last = Last("createJrpc", FALSE, NoError, Undefined)

\* the value undefined as a decoded value
NothingDecoded ==
  RawMessage("undefined", Undefined, Undefined, Undefined, Undefined,
             Undefined, NoErrorField, <<>>)

\* an engine that is not wired to a socket
NoSocket ==
  /\ readyState = "none"
  /\ closedByUs = FALSE
  /\ connectionError = FALSE
  /\ sendQueue = <<>>
  /\ sendCalls = <<>>
  /\ socketSent = <<>>
  /\ connectionErrors = <<>>
  /\ remoteCloses = 0

\* an engine; the coercer is not called on its own
Init ==
  /\ createJrpc
  /\ decoded = NothingDecoded
  /\ coerced = <<>>
  /\ dispatched = <<>>
  /\ reentered = <<>>
  /\ NoSocket

Next ==
  \/ \E message \in InboundMessages :
       /\ Admissible(message) /\ receivedMessage(message)
       /\ UNCHANGED <<reentered, adapterVars>>
  \/ /\ close
     /\ UNCHANGED <<reentered, adapterVars>>
  \/ \E method \in Methods, params \in Params, timeoutMs \in Timeouts,
        sendThrows \in BOOLEAN :
       /\ requestIdCounter < MaxRequests
       /\ request(method, params, timeoutMs, sendThrows)
       /\ UNCHANGED <<reentered, adapterVars>>
  \/ \E method \in Methods, params \in Params :
       /\ notify(method, params)
       /\ UNCHANGED <<reentered, adapterVars>>
  \/ \E requestId \in RequestIds :
       /\ timeoutCallback(requestId)
       /\ UNCHANGED <<reentered, adapterVars>>
  \/ \E h \in 1 .. MaxInbound, response \in HandlerResponses :
       /\ handleRequestThen(h, response)
       /\ UNCHANGED <<reentered, adapterVars>>
  \/ \E h \in 1 .. MaxInbound :
       /\ handleRequestRejected(h)
       /\ UNCHANGED <<reentered, adapterVars>>

Spec == Init /\ [][Next]_vars

(***************************************************************************)
(* An engine whose peer sends several Requests before their handlers       *)
(* complete                                                                *)
(***************************************************************************)
\* the valid Requests of the peer and the Responses to the engine's first
\* request
ConcurrentMessages ==
  {message \in RequestMessages : message.id.t # "null"}
  \cup {ResultResponse(Num(0), Str("ok")), ErrorResponse(Num(0), RemoteError)}

\* the peer sends no further Request while MaxSuspended handlers are running
AdmissibleConcurrently(message) ==
  Len(handlers) + Len(receivedMessageOutcome(Current, message).request)
    <= MaxSuspended

ConcurrentNext ==
  \/ \E message \in ConcurrentMessages :
       /\ AdmissibleConcurrently(message) /\ receivedMessage(message)
       /\ UNCHANGED <<reentered, adapterVars>>
  \/ /\ close
     /\ UNCHANGED <<reentered, adapterVars>>
  \/ \E method \in Methods, params \in Params, timeoutMs \in Timeouts :
       /\ requestIdCounter < MaxRequests
       /\ request(method, params, timeoutMs, FALSE)
       /\ UNCHANGED <<reentered, adapterVars>>
  \/ \E method \in Methods, params \in Params :
       /\ notify(method, params)
       /\ UNCHANGED <<reentered, adapterVars>>
  \/ \E requestId \in RequestIds :
       /\ timeoutCallback(requestId)
       /\ UNCHANGED <<reentered, adapterVars>>
  \/ \E h \in 1 .. MaxSuspended, response \in HandlerResponses :
       /\ handleRequestThen(h, response)
       /\ UNCHANGED <<reentered, adapterVars>>
  \/ \E h \in 1 .. MaxSuspended :
       /\ handleRequestRejected(h)
       /\ UNCHANGED <<reentered, adapterVars>>

ConcurrentSpec == Init /\ [][ConcurrentNext]_vars

(***************************************************************************)
(* An engine whose peer is wired synchronously: its Responses can arrive   *)
(* while sendMessage runs                                                  *)
(***************************************************************************)
\* the Responses of the peer to the ids the engine issues
ReentrantMessages ==
  {ResultResponse(Num(i), Str("ok")) : i \in RequestIds}

ReentrantNext ==
  \/ \E method \in Methods, params \in Params, timeoutMs \in Timeouts,
        message \in ReentrantMessages :
       /\ requestIdCounter < MaxRequests
       /\ requestReentrant(method, params, timeoutMs, message)
       /\ UNCHANGED adapterVars
  \/ \E message \in ReentrantMessages :
       /\ receivedMessage(message)
       /\ UNCHANGED <<reentered, adapterVars>>
  \/ /\ close
     /\ UNCHANGED <<reentered, adapterVars>>
  \/ \E method \in Methods, params \in Params, timeoutMs \in Timeouts :
       /\ requestIdCounter < MaxRequests
       /\ request(method, params, timeoutMs, FALSE)
       /\ UNCHANGED <<reentered, adapterVars>>
  \/ \E requestId \in RequestIds :
       /\ timeoutCallback(requestId)
       /\ UNCHANGED <<reentered, adapterVars>>

ReentrantSpec == Init /\ [][ReentrantNext]_vars

(***************************************************************************)
(* The WebSocket adapter (lib/websocket.ts, createWebSocketJrpc) around an *)
(* engine, with the JSON parser of createJsonParser                        *)
(***************************************************************************)
\* event.data: a string that is the JSON text of value, a string that is
\* no JSON text, or an ArrayBuffer
Text(value) == [kind |-> "text", json |-> TRUE, value |-> value]
Garbage == [kind |-> "text", json |-> FALSE, value |-> NothingDecoded]
Binary == [kind |-> "binary", json |-> FALSE, value |-> NothingDecoded]

\* parser.parse({ data }) of createJsonParser
jsonParse(data) ==
  IF data.kind # "text"
  THEN [error |-> "unsupported WebSocket data type", message |-> NothingDecoded]
  ELSE IF ~data.json
  THEN [error |-> "SyntaxError", message |-> NothingDecoded]
  ELSE [error |-> NoError, message |-> data.value]

\* parser.format({ message }) of createJsonParser: JSON.stringify leaves
\* out the properties that are undefined
jsonFormat(message) ==
  Text(RawMessage("object", Str(message.jsonrpc), message.id, message.method,
                  message.params, message.result, message.error, <<>>))

\* the queue and what socket.send was called with
Channel(queue, passed) == [sendQueue |-> queue, socketSent |-> passed]

\* a maybeSendNext that sends a queue without emptying it
maybeSendNextKeepsQueue(state, channel) ==
  IF state # "OPEN"
  THEN channel
  ELSE Channel(channel.sendQueue, channel.socketSent \o channel.sendQueue)

maybeSendNext(state, channel) ==
  IF state # "OPEN"
  THEN channel
  ELSE Channel(<<>>, channel.socketSent \o channel.sendQueue)

\* data is queued together with the number of the sendMessage call it
\* comes from
sendOrQueueRawMessage(state, channel, call, data) ==
  maybeSendNext(state,
                Channel(Append(channel.sendQueue,
                               [call |-> call, data |-> data]),
                        channel.socketSent))

\* the sendMessage calls an engine step makes with messages, one after the
\* other; calls is the number of calls made before
RECURSIVE sendMessages(_, _, _, _)
sendMessages(state, channel, calls, messages) ==
  IF messages = <<>> THEN channel
  ELSE sendMessages(state,
                    sendOrQueueRawMessage(state, channel, calls + 1,
                                          jsonFormat(Head(messages))),
                    calls + 1, Tail(messages))

RECURSIVE formatAll(_)
formatAll(messages) ==
  IF messages = <<>> THEN <<>>
  ELSE <<jsonFormat(Head(messages))>> \o formatAll(Tail(messages))

\* the engine's sendMessage is the adapter's: what the engine step has
\* sent goes through the queue
sendMessage ==
  LET channel == sendMessages(readyState, Channel(sendQueue, socketSent),
                              Len(sendCalls), sent')
  IN /\ sendCalls' = sendCalls \o formatAll(sent')
     /\ sendQueue' = channel.sendQueue
     /\ socketSent' = channel.socketSent
     /\ UNCHANGED <<readyState, closedByUs, connectionError, connectionErrors,
                    remoteCloses, reentered>>

\* an event listener or method of the adapter that does not call the engine
adapterOnly(op, threw, error) ==
  /\ last' = Last(op, threw, error, Undefined)
  /\ sent' = <<>>
  /\ notifications' = <<>>
  /\ resolutions' = <<>>
  /\ UNCHANGED <<closed, pendingRequests, requestIdCounter, timers, futures,
                 issued, handlers, uncaught>>
  /\ UNCHANGED <<decoded, coerced, dispatched, reentered>>

\* socket.close()
socketClosing(state) ==
  IF state \in {"CONNECTING", "OPEN"} THEN "CLOSING" ELSE state

\* closedByUs = true; socket.close(); onConnectionError({ error })
fatal(error) ==
  /\ closedByUs' = TRUE
  /\ readyState' = socketClosing(readyState)
  /\ connectionErrors' = Append(connectionErrors, error)
  /\ UNCHANGED <<connectionError, sendQueue, sendCalls, socketSent,
                 remoteCloses>>

\* a "message" listener that goes on after a failure
socketMessageLenient(data) ==
  /\ readyState \in {"OPEN", "CLOSING"}
  /\ IF closedByUs
     THEN adapterOnly("message", TRUE, "WebSocket was closed by us")
     ELSE IF jsonParse(data).error # NoError
     THEN adapterOnly("message", FALSE, "failed to parse WebSocket message")
     ELSE receivedMessage(jsonParse(data).message) /\ reentered' = reentered
  /\ UNCHANGED adapterVars

\* the "message" listener of the socket
socketMessage(data) ==
  /\ readyState \in {"OPEN", "CLOSING"}
  /\ IF closedByUs
     THEN /\ adapterOnly("message", TRUE, "WebSocket was closed by us")
          /\ UNCHANGED adapterVars
     ELSE IF jsonParse(data).error # NoError
     THEN /\ adapterOnly("message", FALSE,
                         "failed to parse WebSocket message")
          /\ fatal("failed to parse WebSocket message")
     ELSE /\ receivedMessage(jsonParse(data).message)
          /\ reentered' = reentered
          /\ IF ~last'.threw /\ last'.error # NoError
             THEN fatal("failed to handle JRPC message")
             ELSE UNCHANGED adapterVars

\* a "close" listener that reports every close as a remote one
socketCloseReported ==
  /\ readyState # "CLOSED"
  /\ readyState' = "CLOSED"
  /\ sendQueue' = <<>>
  /\ close
  /\ remoteCloses' = remoteCloses + 1
  /\ UNCHANGED <<closedByUs, connectionError, sendCalls, socketSent,
                 connectionErrors, reentered>>

\* the socket closes: readyState becomes CLOSED and the "close" listener
\* runs
socketClose ==
  /\ readyState # "CLOSED"
  /\ readyState' = "CLOSED"
  /\ sendQueue' = <<>>
  /\ close
  /\ remoteCloses' = IF closedByUs \/ connectionError
                     THEN remoteCloses
                     ELSE remoteCloses + 1
  /\ UNCHANGED <<closedByUs, connectionError, sendCalls, socketSent,
                 connectionErrors, reentered>>

\* the "error" listener of the socket
socketError ==
  /\ readyState # "CLOSED"
  /\ adapterOnly("error", FALSE,
                 IF closedByUs THEN NoError ELSE "WebSocket connection error")
  /\ IF closedByUs
     THEN UNCHANGED adapterVars
     ELSE /\ connectionError' = TRUE
          /\ connectionErrors'
               = Append(connectionErrors, "WebSocket connection error")
          /\ UNCHANGED <<readyState, closedByUs, sendQueue, sendCalls,
                         socketSent, remoteCloses>>

\* an "open" listener that sends what is queued
socketOpenFlushes ==
  /\ readyState = "CONNECTING"
  /\ readyState' = "OPEN"
  /\ adapterOnly("open", FALSE, NoError)
  /\ sendQueue' = <<>>
  /\ socketSent' = socketSent \o sendQueue
  /\ UNCHANGED <<closedByUs, connectionError, sendCalls, connectionErrors,
                 remoteCloses>>

\* the socket opens; the adapter has no "open" listener
socketOpen ==
  /\ readyState = "CONNECTING"
  /\ readyState' = "OPEN"
  /\ adapterOnly("open", FALSE, NoError)
  /\ UNCHANGED <<closedByUs, connectionError, sendQueue, sendCalls,
                 socketSent, connectionErrors, remoteCloses>>

\* close() of the adapter's handle
adapterClose ==
  /\ adapterOnly("adapter close", FALSE, NoError)
  /\ closedByUs' = TRUE
  /\ readyState' = socketClosing(readyState)
  /\ UNCHANGED <<connectionError, sendQueue, sendCalls, socketSent,
                 connectionErrors, remoteCloses>>

\* what the peer sends over the socket
SocketData ==
  {Text(ResultResponse(Num(0), Str("ok"))),
   Text(RequestMessage(Num(42), Str("m"), Obj("p"))),
   Text(RawMessage("object", Str("1.0"), Num(0), Undefined, Undefined,
                   Str("ok"), NoErrorField, <<>>)),
   Garbage,
   Binary}

\* createWebSocketJrpc({ socket, ... }) with a socket that is connecting
\* or open
createWebSocketJrpc ==
  /\ createJrpc
  /\ readyState \in {"CONNECTING", "OPEN"}
  /\ closedByUs = FALSE
  /\ connectionError = FALSE
  /\ sendQueue = <<>>
  /\ sendCalls = <<>>
  /\ socketSent = <<>>
  /\ connectionErrors = <<>>
  /\ remoteCloses = 0

AdapterInit ==
  /\ createWebSocketJrpc
  /\ decoded = NothingDecoded
  /\ coerced = <<>>
  /\ dispatched = <<>>
  /\ reentered = <<>>

AdapterNext ==
  \/ socketOpen
  \/ \E data \in SocketData :
       /\ jsonParse(data).error = NoError
          => Admissible(jsonParse(data).message)
       /\ socketMessage(data)
  \/ socketClose
  \/ ~connectionError /\ socketError
  \/ adapterClose
  \/ \E method \in Methods, params \in Params, timeoutMs \in Timeouts :
       /\ requestIdCounter < MaxRequests
       /\ Len(sendCalls) < MaxSends
       /\ request(method, params, timeoutMs, FALSE)
       /\ sendMessage
  \/ \E method \in Methods, params \in Params :
       /\ Len(sendCalls) < MaxSends
       /\ notify(method, params)
       /\ sendMessage
  \/ \E requestId \in RequestIds :
       /\ timeoutCallback(requestId)
       /\ UNCHANGED <<reentered, adapterVars>>
  \/ \E h \in 1 .. MaxInbound, response \in HandlerResponses :
       /\ Len(sendCalls) < MaxSends
       /\ handleRequestThen(h, response)
       /\ sendMessage

AdapterSpec == AdapterInit /\ [][AdapterNext]_vars

(***************************************************************************)
(* The coercer called on its own: coerceJrpcMessage({ message }) for the   *)
(* decoded values a transport can hand over                                *)
(***************************************************************************)
JsonrpcValues == {Undefined, Str("2.0"), Str("1.0"), Num(2)}
IdValues ==
  {Undefined, Null, Num(1), Half(1), Str("a"), Obj(""), Arr(""), Bool(TRUE)}
MethodValues == {Undefined, Str("m"), Str("n"), Str("constructor"), Num(1)}
ParamsValues == {Undefined, Obj("p"), Arr("a"), Str("scalar"), Null}
ResultValues == {Undefined, Null, Str("ok")}
ErrorValues ==
  {NoErrorField,
   RemoteError,
   ErrObj(Num(1), Str("x"), Undefined),
   ErrPlain(Null),
   ErrPlain(Str("e")),
   ErrPlain(Arr("")),
   ErrObj(Str("c"), Str("Invalid Request"), Undefined),
   ErrObj(Half(1), Str("Invalid Request"), Undefined),
   ErrObj(Num(-32600), Num(2), Undefined)}

\* keys outside the six known ones
UnknownKeys == {"0", "b", "extra"}
\* those of them that are array indices
ArrayIndexKeys == {"0"}

\* the orders in which an object can hold unknown keys: each key once, and
\* array indices before the other keys, which keep their insertion order
KeyOrders ==
  {order \in UNION {[1 .. n -> UnknownKeys] : n \in 0 .. MaxUnknownKeys} :
     /\ \A i, j \in DOMAIN order : i # j => order[i] # order[j]
     /\ \A i, j \in DOMAIN order :
          (i < j /\ order[j] \in ArrayIndexKeys)
            => order[i] \in ArrayIndexKeys}

\* decoded values: every combination of the field values in a record, the
\* empty array, and values that are no objects
DecodedValues ==
  {RawMessage("object", jsonrpc, id, method, params, result, error, other) :
     jsonrpc \in JsonrpcValues, id \in IdValues, method \in MethodValues,
     params \in ParamsValues, result \in ResultValues, error \in ErrorValues,
     other \in KeyOrders}
  \cup {RawMessage(t, Undefined, Undefined, Undefined, Undefined, Undefined,
                   NoErrorField, <<>>) :
          t \in {"array", "null", "undefined", "string", "number", "boolean"}}

\* the registries of the receiving side: the request method m and the
\* notification method m, both with {value: x} params
RequestDefinitions ==
  [name \in {"m"} |-> [paramsParser |-> "record", resultParser |-> "string"]]
NotificationDefinitions ==
  [name \in {"m"} |-> [paramsParser |-> "record"]]

\* the definitions createCombined is called with: side B is the receiving
\* side, side A, the calling one, serves the method n
SideBDefinitions ==
  [requests |-> RequestDefinitions, notifications |-> NotificationDefinitions]
SideADefinitions ==
  [requests |->
     [name \in {"n"} |-> [paramsParser |-> "record", resultParser |-> "string"]],
   notifications |-> [name \in {"n"} |-> [paramsParser |-> "record"]]]

Caller == sideA(SideADefinitions, SideBDefinitions)
Receiver == sideB(SideADefinitions, SideBDefinitions)

\* the typed values the callers pass
TypedParams == {Str("p")}

\* what the fallback callbacks of the request server answer
FallbackResponses ==
  {Response(Undefined, ErrObj(Num(-32601), Str("Method not found"), Undefined)),
   NoResponse}

\* what the request handlers return
HandlerReturns == {Str("done"), Undefined}

CoerceInit ==
  /\ createJrpc
  /\ decoded \in DecodedValues
  /\ coerced = <<>>
  /\ dispatched = <<>>
  /\ reentered = <<>>
  /\ NoSocket

\* the call coerceJrpcMessage({ message: decoded })
coerce ==
  /\ coerced = <<>>
  /\ coerced' = <<coerceJrpcMessage(decoded)>>
  /\ UNCHANGED <<decoded, dispatched, closed, pendingRequests,
                 requestIdCounter, timers, futures, issued, handlers,
                 uncaught, last, sent, notifications, resolutions>>

\* the accepted Request or Notification is handed, with its method and
\* params, to the dispatcher of the receiving side's registry server, as an
\* engine built with handleIncomingRequest and handleIncomingNotification
\* of that side does it
serve ==
  /\ coerced # <<>>
  /\ dispatched = <<>>
  /\ coerced[1].error = NoError
  /\ coerced[1].jrpcMessage.method.t # "undefined"
  /\ coerced[1].jrpcMessage.id.t # "null"
  /\ \E fallback \in FallbackResponses, returned \in HandlerReturns :
       dispatched'
         = <<IF coerced[1].jrpcMessage.id.t = "undefined"
             THEN handleNotificationOf(Receiver.server.notifications,
                                       coerced[1].jrpcMessage.method,
                                       coerced[1].jrpcMessage.params)
             ELSE handleRequest(Receiver.server.requests,
                                coerced[1].jrpcMessage.method,
                                coerced[1].jrpcMessage.params,
                                fallback, returned)>>
  /\ UNCHANGED <<decoded, coerced, closed, pendingRequests, requestIdCounter,
                 timers, futures, issued, handlers, uncaught, last, sent,
                 notifications, resolutions>>

CoerceNext ==
  \/ coerce /\ UNCHANGED <<reentered, adapterVars>>
  \/ serve /\ UNCHANGED <<reentered, adapterVars>>

CoerceSpec == CoerceInit /\ [][CoerceNext]_vars

(***************************************************************************)
(* Properties                                                              *)
(***************************************************************************)
\* the request ids that have an entry in the pending table
PendingIds == {pendingRequests[k].requestId : k \in DOMAIN pendingRequests}

\* the payload a Response carries: its result, or the code, message and
\* data of its error
ExpectedResponse(message) ==
  IF message.result.t # "undefined"
  THEN Response(message.result, NoErrorField)
  ELSE Response(Undefined, ErrObj(message.error.code, message.error.message,
                                  message.error.data))

\* a Response whose id is the integer id of a request sent by this engine
ForRequest(message, i) == message.id = Num(i)

\* C1: a valid Response carrying the id of a request that is still pending
\* resolves that request's future with {error: undefined, response: the
\* Response's payload}, as its only resolution; receivedMessage returns
\* success and the entry leaves the pending table.
C1_MatchedResponseResolves ==
  [][\A message \in ResponseMessages : \A i \in PendingIds :
       (~closed /\ ForRequest(message, i) /\ receivedMessage(message))
       => /\ futures'[i].resolved
               = <<RequestResult(NoError, ExpectedResponse(message))>>
          /\ last'.threw = FALSE
          /\ last'.error = NoError
          /\ i \notin PendingIds']_vars

\* a request was just resolved by an ErrorResponse carrying its id
C1_Witness ==
  /\ last.op = "receivedMessage"
  /\ last.error = NoError
  /\ \E i \in RequestIds :
       /\ last.id = Num(i)
       /\ resolutions = <<i>>
       /\ futures[i].resolved
            = <<RequestResult(NoError,
                              Response(Undefined,
                                       ErrObj(Num(-32600),
                                              Str("Invalid Request"),
                                              Obj("details"))))>>

\* C2: every PendingRequest is removed and resolved exactly once, by the
\* first of {matching Response, timer expiry, close}; no later event
\* resolves it again, and no timer callback runs while its request has no
\* entry in the pending table.
C2_ResolvedExactlyOnce ==
  /\ \A i \in RequestIds : Len(futures[i].resolved) <= 1
  /\ \A i \in RequestIds :
       futures[i].returned => (i \in PendingIds <=> futures[i].resolved = <<>>)
  /\ uncaught = {}

\* C3: close() on an open engine resolves every pending request exactly
\* once with 'connection closed', in ascending id order, leaves the pending
\* table empty and leaves no timer armed.
C3_CloseDrainsAndCancels ==
  [][(~closed /\ closed')
     => /\ DOMAIN pendingRequests' = {}
        /\ {resolutions'[k] : k \in DOMAIN resolutions'} = PendingIds
        /\ \A j, k \in DOMAIN resolutions' :
             j < k => resolutions'[j] < resolutions'[k]
        /\ \A i \in PendingIds :
             futures'[i].resolved
               = <<RequestResult("connection closed", NoResponse)>>
        /\ \A i \in RequestIds : timers'[i] # "armed"]_vars

\* C4: the timer of a pending request expires: its future resolves with the
\* 'timeout' failure and no response, and its entry is removed; a Response
\* for that id delivered afterwards is answered with 'received response for
\* non-pending id', nothing is thrown and nothing is resolved.
C4_TimeoutThenLateResponse ==
  [][/\ \A i \in PendingIds :
          (timers[i] = "armed" /\ timeoutCallback(i))
          => /\ futures'[i].resolved = <<RequestResult("timeout", NoResponse)>>
             /\ i \notin PendingIds'
             /\ last'.threw = FALSE
     /\ \A message \in ResponseMessages : \A i \in RequestIds :
          (/\ ~closed
           /\ ForRequest(message, i)
           /\ futures[i].resolved = <<RequestResult("timeout", NoResponse)>>
           /\ receivedMessage(message))
          => /\ last'.threw = FALSE
             /\ last'.error = "received response for non-pending id"
             /\ resolutions' = <<>>
             /\ UNCHANGED <<pendingRequests, futures, timers>>]_vars

\* a Response for a request that had timed out was just rejected
C4_Witness ==
  /\ last.op = "receivedMessage"
  /\ last.threw = FALSE
  /\ last.error = "received response for non-pending id"
  /\ \E i \in RequestIds :
       /\ last.id = Num(i)
       /\ timers[i] = "fired"
       /\ futures[i].resolved = <<RequestResult("timeout", NoResponse)>>

\* C5: a Response resolves exactly the pending request that was sent with
\* the same id, with its payload, and neither resolves nor alters a request
\* that was sent with a different id.
C5_ResponsesMatchById ==
  [][\A message \in ResponseMessages :
       (~closed /\ receivedMessage(message))
       => /\ \A i \in PendingIds :
               ForRequest(message, i)
               => /\ resolutions' = <<i>>
                  /\ futures'[i].resolved
                       = <<RequestResult(NoError, ExpectedResponse(message))>>
          /\ \A j \in RequestIds :
               ~ForRequest(message, j)
               => /\ futures'[j] = futures[j]
                  /\ (j \in PendingIds' <=> j \in PendingIds)]_vars

\* C6: a valid Response whose id is not the id of a pending request is
\* answered with 'received response for non-pending id': nothing is thrown,
\* no future is resolved, and the pending table, the id counter and the
\* closed flag are unchanged.
C6_NonPendingResponseRejected ==
  [][\A message \in ResponseMessages :
       (/\ ~closed
        /\ \A i \in PendingIds : ~ForRequest(message, i)
        /\ receivedMessage(message))
       => /\ last'.threw = FALSE
          /\ last'.error = "received response for non-pending id"
          /\ resolutions' = <<>>
          /\ UNCHANGED <<pendingRequests, requestIdCounter, closed,
                         futures>>]_vars

\* C7: the k-th request() call of an engine is given the id k - 1, and the
\* Request it sends carries that id: ids are never reused, whatever became
\* of the earlier requests.
C7_IdsCountRequestCalls ==
  /\ \A k \in DOMAIN issued : issued[k] = k - 1
  /\ last.op = "request"
     => /\ last.id = Num(Len(issued) - 1)
        /\ sent = <<Message(Num(Len(issued) - 1), sent[1].method,
                            sent[1].params, Undefined, NoErrorField)>>

\* the id 1 was just allocated, after request 0 had been resolved
C7_Witness ==
  /\ last.op = "request"
  /\ last.id = Num(1)
  /\ Len(futures[0].resolved) = 1

\* C8: a valid inbound Request makes exactly one handleRequest invocation;
\* when it completes, at most one message is sent: the ErrorResponse with
\* the request's id if the outcome has an error, the SuccessResponse with
\* the request's id if it has a result (null included), nothing otherwise.
C8_HandlerOutcomeSent ==
  [][/\ \A message \in RequestMessages :
          (~closed /\ message.id.t # "null" /\ receivedMessage(message))
          => /\ handlers' = Append(handlers, [id |-> message.id,
                                              method |-> message.method,
                                              params |-> message.params])
             /\ sent' = <<>>
     /\ \A h \in DOMAIN handlers : \A response \in HandlerResponses :
          handleRequestThen(h, response)
          => /\ Len(handlers') = Len(handlers) - 1
             /\ Len(sent') <= 1
             /\ response.error.t # "undefined"
                => sent' = <<Message(handlers[h].id, Undefined, Undefined,
                                     Undefined, response.error)>>
             /\ (response.error.t = "undefined"
                 /\ response.result.t # "undefined")
                => sent' = <<Message(handlers[h].id, Undefined, Undefined,
                                     response.result, NoErrorField)>>
             /\ (response.error.t = "undefined"
                 /\ response.result.t = "undefined")
                => sent' = <<>>]_vars

\* a handler just completed with the result null and its response was sent
C8_Witness ==
  /\ last.op = "handled"
  /\ last.threw = FALSE
  /\ Len(sent) = 1
  /\ sent[1].id = last.id
  /\ sent[1].result = Null

\* C9: closed only changes from false to true, by a close() that returns;
\* on a closed engine receivedMessage throws 'connection closed' and close
\* throws 'connection already closed', and neither runs a handler, sends a
\* message or changes the engine state.
C9_ClosedIsTerminal ==
  [][/\ closed' # closed
        => (~closed /\ closed' /\ last'.op = "close" /\ last'.threw = FALSE)
     /\ (closed /\ last'.op \in {"receivedMessage", "close"})
        => /\ last'.threw = TRUE
           /\ last'.error = IF last'.op = "close"
                            THEN "connection already closed"
                            ELSE "connection closed"
           /\ sent' = <<>>
           /\ notifications' = <<>>
           /\ resolutions' = <<>>
           /\ UNCHANGED <<closed, pendingRequests, requestIdCounter, timers,
                          futures, handlers, issued, uncaught>>]_vars

\* receivedMessage just threw on a closed engine
C9_Witness ==
  /\ closed
  /\ last = Last("receivedMessage", TRUE, "connection closed", Undefined)

\* the failures the coercer reports for the malformed values
CoerceFailures ==
  {coerceJrpcMessage(message).error : message \in MalformedMessages}

\* C10: when the coercer rejects the value, receivedMessage on an open
\* engine returns that failure and does nothing else: no handler runs, no
\* message is sent, and the pending table, the id counter and the closed
\* flag stay as they were.
C10_CoerceFailureReturned ==
  [][\A message \in InboundMessages :
       (/\ ~closed
        /\ coerceJrpcMessage(message).error # NoError
        /\ receivedMessage(message))
       => /\ last'.threw = FALSE
          /\ last'.error = coerceJrpcMessage(message).error
          /\ sent' = <<>>
          /\ notifications' = <<>>
          /\ resolutions' = <<>>
          /\ UNCHANGED <<closed, pendingRequests, requestIdCounter, timers,
                         futures, handlers, issued, uncaught>>]_vars

\* a malformed value was just rejected while a request was pending
C10_Witness ==
  /\ ~closed
  /\ last.op = "receivedMessage"
  /\ last.threw = FALSE
  /\ last.error \in CoerceFailures
  /\ PendingIds # {}

\* C11: on an open engine, receivedMessage rejects every inbound message
\* whose id is null with a returned (not thrown) failure, invoking no
\* handler, sending nothing and leaving the pending table alone; when the
\* message is otherwise a valid Request the failure is "this library does
\* not support null ids".
C11_NullIdRejected ==
  [][\A message \in InboundMessages :
       (/\ ~closed
        /\ message.t = "object"
        /\ message.id = Null
        /\ receivedMessage(message))
       => /\ last'.threw = FALSE
          /\ last'.error # NoError
          /\ (message \in RequestMessages
                => last'.error = "this library does not support null ids")
          /\ sent' = <<>>
          /\ notifications' = <<>>
          /\ resolutions' = <<>>
          /\ UNCHANGED <<pendingRequests, handlers, futures, timers,
                         requestIdCounter>>]_vars

\* a Request with a null id was just rejected while a request was pending
C11_Witness ==
  /\ last.op = "receivedMessage"
  /\ last.threw = FALSE
  /\ last.id = Null
  /\ last.error = "this library does not support null ids"
  /\ PendingIds # {}
  /\ handlers = <<>>

\* C12: a valid inbound Notification makes receivedMessage invoke the
\* notification handler exactly once, within the call, with the message's
\* method and params; the call returns success, the request handler is not
\* invoked, nothing is sent and the pending table is unchanged.
C12_NotificationHandled ==
  [][\A message \in NotificationMessages :
       (~closed /\ receivedMessage(message))
       => /\ notifications'
               = <<[method |-> message.method, params |-> message.params]>>
          /\ last'.threw = FALSE
          /\ last'.error = NoError
          /\ sent' = <<>>
          /\ resolutions' = <<>>
          /\ UNCHANGED <<pendingRequests, handlers, futures, timers>>]_vars

\* a Notification with params was just handed to the notification handler
\* while a request was pending
C12_Witness ==
  /\ last.op = "receivedMessage"
  /\ last.error = NoError
  /\ notifications = <<[method |-> Str("n"), params |-> Arr("a")]>>
  /\ PendingIds # {}

\* C13: request(method, params) on an open engine calls sendMessage exactly
\* once, within the call, with {jsonrpc: "2.0", method, params, id: the
\* allocated id}; when request() returns, that id is in the pending table
\* and its future is unresolved.
C13_RequestSendsAndRegisters ==
  [][\A method \in Methods, params \in Params, timeoutMs \in Timeouts,
        sendThrows \in BOOLEAN :
       (/\ ~closed
        /\ requestIdCounter < MaxRequests
        /\ request(method, params, timeoutMs, sendThrows))
       => /\ sent' = <<Message(Num(requestIdCounter), method, params,
                               Undefined, NoErrorField)>>
          /\ ~sendThrows
               => /\ last'.threw = FALSE
                  /\ requestIdCounter \in PendingIds'
                  /\ ToString(requestIdCounter) \in DOMAIN pendingRequests'
                  /\ futures'[requestIdCounter].returned
                  /\ futures'[requestIdCounter].resolved = <<>>]_vars

\* the second request() just returned: its message went out with id 1, and
\* both requests are pending and unresolved
C13_Witness ==
  /\ ~closed
  /\ last = Last("request", FALSE, NoError, Num(1))
  /\ sent = <<Message(Num(1), Str("m"), Obj("p"), Undefined, NoErrorField)>>
  /\ PendingIds = {0, 1}
  /\ futures[1].returned
  /\ futures[1].resolved = <<>>

\* C14: notify(method, params) calls sendMessage exactly once with jsonrpc
\* "2.0", the given method and params and no id, and changes neither the
\* pending table nor the id counter; nothing is ever correlated with it:
\* every resolution made by any step is that of an id allocated by
\* request().
C14_NotifySendsWithoutId ==
  [][/\ \A method \in Methods, params \in Params :
          notify(method, params)
          => /\ sent' = <<Message(Undefined, method, params, Undefined,
                                  NoErrorField)>>
             /\ UNCHANGED <<pendingRequests, requestIdCounter, futures,
                            timers, issued>>
     /\ \A k \in DOMAIN resolutions' :
          \E j \in DOMAIN issued' : issued'[j] = resolutions'[k]]_vars

\* notify() was just called while a request was pending, and that request
\* is still pending
C14_Witness ==
  /\ last.op = "notify"
  /\ sent = <<Message(Undefined, Str("m"), Obj("p"), Undefined, NoErrorField)>>
  /\ requestIdCounter = 1
  /\ PendingIds = {0}

\* a transport failure: an error and no response
TransportFailure(result) ==
  /\ result.error \in {"timeout", "connection closed"}
  /\ result.response = NoResponse

\* an answer of the peer: no error, and a response with either a result or
\* an error object
PeerAnswer(result) ==
  /\ result.error = NoError
  /\ (result.response.result.t # "undefined")
       # (result.response.error.t # "undefined")

\* the value the resolve function of request i was called with last
Resolved(f, i) == f[i].resolved[Len(f[i].resolved)]

\* C15: the outcome of request() tells transport failures from application
\* errors: timer expiry yields {error: "timeout", response: undefined} and
\* close() {error: "connection closed", response: undefined}; an
\* ErrorResponse yields {error: undefined, response: {result: undefined,
\* error: the remote code, message and data}}; every resolution is of
\* exactly one of the two shapes.
C15_TransportOrApplication ==
  [][/\ \A k \in DOMAIN resolutions' :
          LET result == Resolved(futures', resolutions'[k])
          IN /\ TransportFailure(result) # PeerAnswer(result)
             /\ last'.op = "timeout"
                  => result = RequestResult("timeout", NoResponse)
             /\ last'.op = "close"
                  => result = RequestResult("connection closed", NoResponse)
             /\ last'.op = "receivedMessage" => PeerAnswer(result)
     /\ \A message \in ResponseMessages :
          (/\ ~closed
           /\ message.error.t # "undefined"
           /\ receivedMessage(message))
          => \A k \in DOMAIN resolutions' :
               Resolved(futures', resolutions'[k])
                 = RequestResult(NoError,
                                 Response(Undefined,
                                          ErrObj(message.error.code,
                                                 message.error.message,
                                                 message.error.data)))]_vars

\* one request ended by its timer and the other by an ErrorResponse
C15_Witness ==
  /\ futures[0].resolved = <<RequestResult("timeout", NoResponse)>>
  /\ futures[1].resolved
       = <<RequestResult(NoError,
                         Response(Undefined,
                                  ErrObj(Num(-32600), Str("Invalid Request"),
                                         Obj("details"))))>>

\* C16: when the peer answers a typed request call with an ErrorResponse,
\* the caller's outcome identifies the remote application error: it is not
\* a success, and it is neither the transport failure ("failed to execute
\* request") nor the local result-decode failure ("failed to parse
\* result").  The typed caller passes no timeout to request().
C16_RemoteErrorIdentified ==
  \A i \in RequestIds : \A resultParser \in ResultParsers :
    (/\ futures[i].resolved # <<>>
     /\ timers[i] = "none"
     /\ Resolved(futures, i).response.error.t # "undefined")
    => LET outcome == clientMethod(resultParser, Resolved(futures, i))
       IN /\ outcome.error # NoError
          /\ outcome.error
               \notin {"failed to execute request", "failed to parse result"}

\* the variants of TJsonRpcMessage
IsNotification(m) ==
  /\ m.jsonrpc = "2.0"
  /\ m.id.t = "undefined"
  /\ m.method.t = "string"
  /\ m.result.t = "undefined" /\ m.error.t = "undefined"
IsRequest(m) ==
  /\ m.jsonrpc = "2.0"
  /\ m.id.t # "undefined"
  /\ m.method.t = "string"
  /\ m.result.t = "undefined" /\ m.error.t = "undefined"
IsResponse(m) ==
  /\ m.jsonrpc = "2.0"
  /\ m.id.t # "undefined"
  /\ m.method.t = "undefined" /\ m.params.t = "undefined"
  /\ (m.result.t # "undefined") # (m.error.t # "undefined")

\* how many of the four outcomes a result of the coercer is
Outcomes(r) ==
  Cardinality({k \in {"failure", "notification", "request", "response"} :
     \/ k = "failure" /\ r.error # NoError
     \/ k = "notification" /\ r.error = NoError /\ IsNotification(r.jrpcMessage)
     \/ k = "request" /\ r.error = NoError /\ IsRequest(r.jrpcMessage)
     \/ k = "response" /\ r.error = NoError /\ IsResponse(r.jrpcMessage)})

\* a field of the decoded value is present
Present(v) == v.t # "undefined"

\* C17: for every decoded value the coercer returns exactly one of a
\* failure, a Notification, a Request and a Response; an accepted value is
\* a Notification iff its id is absent and its method present, a Request
\* iff id and method are both present, and a Response iff its id is
\* present, its method absent and exactly one of result and error present.
C17_ExactlyOneOutcome ==
  coerced # <<>>
  => LET r == coerced[1]
         m == coerced[1].jrpcMessage
     IN /\ Outcomes(r) = 1
        /\ r.error # NoError => m = NoMessage
        /\ r.error = NoError
             => /\ IsNotification(m)
                     <=> (~Present(decoded.id) /\ Present(decoded.method))
                /\ IsRequest(m)
                     <=> (Present(decoded.id) /\ Present(decoded.method))
                /\ IsResponse(m)
                     <=> /\ Present(decoded.id)
                         /\ ~Present(decoded.method)
                         /\ Present(decoded.result) # Present(decoded.error)

\* the coercer was called with an ErrorResponse and returned a Response
C17_Witness ==
  /\ coerced # <<>>
  /\ decoded.id = Str("a")
  /\ decoded.error = RemoteError
  /\ coerced[1].error = NoError
  /\ IsResponse(coerced[1].jrpcMessage)
  /\ ~IsRequest(coerced[1].jrpcMessage)

\* the failure a decoded value v earns under one rule of the coercer's
\* list, NoError when v does not violate the rule; rule 1 has two parts,
\* and an array counts as a record, as typeof has it
RuleFailure(rule, v) ==
  CASE rule = "1 record" ->
         IF TypeOf(v) # "object" \/ v.t = "null"
         THEN "invalid message" ELSE NoError
    [] rule = "1 fields" ->
         IF Len(v.other) > 0
         THEN "unexpected field \"" \o v.other[1] \o "\" in message"
         ELSE NoError
    [] rule = "2" ->
         IF v.jsonrpc # Str("2.0") THEN "invalid jsonrpc version" ELSE NoError
    [] rule = "3" ->
         IF v.id.t \notin {"undefined", "null", "string", "number"}
         THEN "invalid id type" ELSE NoError
    [] rule = "4" ->
         IF Present(v.id) THEN NoError
         ELSE IF Present(v.error)
         THEN "notification must not have an error (maybe id is missing and this is not a notification?)"
         ELSE IF Present(v.result)
         THEN "notification must not have a result (maybe id is missing and this is not a notification?)"
         ELSE IF ~Present(v.method) THEN "no method in notification"
         ELSE NoError
    [] rule = "5" ->
         IF ~Present(v.id) \/ Present(v.method) THEN NoError
         ELSE IF v.id.t = "null" THEN "response must have an id"
         ELSE IF Present(v.error) /\ Present(v.result)
         THEN "both result and error in response"
         ELSE IF ~Present(v.error) /\ ~Present(v.result)
         THEN "no result in response"
         ELSE NoError
    [] rule = "6" ->
         IF ~Present(v.id) \/ ~Present(v.method) THEN NoError
         ELSE IF Present(v.error) THEN "request must not have an error"
         ELSE IF Present(v.result) THEN "request must not have a result"
         ELSE NoError
    [] rule = "7" ->
         IF ~Present(v.error) THEN NoError
         ELSE IF TypeOf(v.error) # "object" \/ v.error.t = "null"
         THEN "invalid error field"
         ELSE IF v.error.code.t # "number"
         THEN "invalid field type for error.code"
         ELSE IF v.error.code.s # "" THEN "error.code is not an integer"
         ELSE IF v.error.message.t # "string"
         THEN "invalid field type for error.message"
         ELSE NoError
    [] rule = "8" ->
         IF Present(v.params) /\ v.params.t \notin {"object", "array"}
         THEN "invalid params" ELSE NoError

\* the order of the rules in the specification's list
ListedPrecedence ==
  <<"1 record", "1 fields", "2", "3", "4", "5", "6", "7", "8">>

\* the order in which coerceJrpcMessage checks them
CheckedPrecedence ==
  <<"1 record", "2", "1 fields", "3", "8", "7", "4", "5", "6">>

\* the positions of the rules v violates
Violated(order, v) ==
  {i \in DOMAIN order : RuleFailure(order[i], v) # NoError}

\* the failure of the first rule of the order that v violates
FirstFailure(order, v) ==
  RuleFailure(order[CHOOSE i \in Violated(order, v) :
                      \A j \in Violated(order, v) : i <= j], v)

\* the coercer was called with a value that violates more than one of the
\* rules 1 to 8; the type of method is the matter of none of them
ViolatesSeveral ==
  /\ coerced # <<>>
  /\ decoded.method.t \in {"undefined", "string"}
  /\ Cardinality(Violated(ListedPrecedence, decoded)) > 1

IsRecord(v) == TypeOf(v) = "object" /\ v.t # "null"

\* C19 as stated: every decoded value that lacks jsonrpc equal to "2.0",
\* records with unknown fields and values that are no records included,
\* is rejected with "invalid jsonrpc version".
C19_EveryValueWithoutVersion ==
  (coerced # <<>> /\ decoded.jsonrpc # Str("2.0"))
  => coerced[1].error = "invalid jsonrpc version"

\* C19, amended: every decoded record that lacks jsonrpc equal to "2.0"
\* (absent, of another type, another string), whatever the rest of it is,
\* unknown fields included, is rejected with "invalid jsonrpc version"; a
\* decoded value that is no record is rejected with "invalid message".
C19_RecordWithoutVersion ==
  (coerced # <<>> /\ decoded.jsonrpc # Str("2.0"))
  => coerced[1].error = IF IsRecord(decoded)
                        THEN "invalid jsonrpc version"
                        ELSE "invalid message"

\* the coercer was called with a record that has unknown fields, an invalid
\* id and jsonrpc "1.0", and reported the version
C19_Witness ==
  /\ coerced # <<>>
  /\ decoded.jsonrpc = Str("1.0")
  /\ decoded.other = <<"b", "extra">>
  /\ decoded.id = Obj("")
  /\ coerced[1].error = "invalid jsonrpc version"

\* C20: a record with jsonrpc "2.0" and a key outside the six known ones
\* is rejected with the unexpected-field failure naming the first such key
\* in the record's key order, whatever the known fields hold and whatever
\* the unknown keys are.
C20_FirstUnknownKeyNamed ==
  (/\ coerced # <<>>
   /\ IsRecord(decoded)
   /\ decoded.jsonrpc = Str("2.0")
   /\ decoded.other # <<>>)
  => /\ coerced[1].error
          = "unexpected field \"" \o Head(decoded.other) \o "\" in message"
     /\ coerced[1].jrpcMessage = NoMessage

\* the coercer was called with a record whose known fields are all invalid
\* and whose unknown keys are b and extra, and named b
C20_Witness ==
  /\ coerced # <<>>
  /\ decoded.jsonrpc = Str("2.0")
  /\ decoded.other = <<"b", "extra">>
  /\ decoded.id = Obj("")
  /\ decoded.method = Num(1)
  /\ decoded.params = Null
  /\ decoded.error = ErrPlain(Null)
  /\ coerced[1].error = "unexpected field \"b\" in message"

\* the coercer was called with a record that has jsonrpc "2.0" and no
\* unknown key
CoercedKnownFields ==
  /\ coerced # <<>>
  /\ IsRecord(decoded)
  /\ decoded.jsonrpc = Str("2.0")
  /\ decoded.other = <<>>

\* method and params of the decoded record pass their type checks
WellTypedCall ==
  /\ decoded.method.t \in {"undefined", "string"}
  /\ decoded.params.t \in {"undefined", "object", "array"}

\* C21 as stated: the coercer rejects a message with a method and a null
\* id, and one with id and method that also carries result or error;
\* every Request or Notification it outputs has an id that is a string or
\* an integer, or no id, never null.
C21_NoNullIdOut ==
  coerced # <<>>
  => /\ (Present(decoded.method) /\ decoded.id = Null)
          => coerced[1].error # NoError
     /\ (/\ Present(decoded.id) /\ Present(decoded.method)
         /\ (Present(decoded.result) \/ Present(decoded.error)))
          => coerced[1].error # NoError
     /\ (/\ coerced[1].error = NoError
         /\ \/ IsRequest(coerced[1].jrpcMessage)
            \/ IsNotification(coerced[1].jrpcMessage))
          => \/ coerced[1].jrpcMessage.id.t \in {"undefined", "string"}
             \/ IsInteger(coerced[1].jrpcMessage.id)

\* C21, amended: the coercer accepts a message with a method and a null id
\* as a Request with id null (the engine is what rejects it), and rejects
\* a message with id and method that also carries result or error; every
\* Request it outputs has an id that is a string, a number or null, and
\* every Notification has no id.
C21_NullIdRequestOut ==
  coerced # <<>>
  => /\ (/\ CoercedKnownFields /\ WellTypedCall
         /\ decoded.id = Null /\ Present(decoded.method)
         /\ ~Present(decoded.result) /\ ~Present(decoded.error))
          => /\ coerced[1].error = NoError
             /\ IsRequest(coerced[1].jrpcMessage)
             /\ coerced[1].jrpcMessage.id = Null
     /\ (/\ Present(decoded.id) /\ Present(decoded.method)
         /\ (Present(decoded.result) \/ Present(decoded.error)))
          => coerced[1].error # NoError
     /\ (coerced[1].error = NoError /\ IsRequest(coerced[1].jrpcMessage))
          => coerced[1].jrpcMessage.id.t \in {"string", "number", "null"}
     /\ (coerced[1].error = NoError /\ IsNotification(coerced[1].jrpcMessage))
          => coerced[1].jrpcMessage.id.t = "undefined"

\* the coercer was called with {jsonrpc: "2.0", id: null, method, params}
\* and returned a Request whose id is null
C21_Witness ==
  /\ CoercedKnownFields
  /\ decoded.id = Null
  /\ decoded.method = Str("m")
  /\ decoded.params = Obj("p")
  /\ coerced[1].error = NoError
  /\ coerced[1].jrpcMessage
       = Message(Null, Str("m"), Obj("p"), Undefined, NoErrorField)

\* C22 as stated: a present id is accepted only if it is a string, an
\* integer or null; every other id (boolean, object, array, non-integer
\* number) is rejected with "invalid id type".
C22_IntegerIds ==
  (CoercedKnownFields /\ Present(decoded.id))
  => IF decoded.id.t \in {"string", "null"} \/ IsInteger(decoded.id)
     THEN coerced[1].error # "invalid id type"
     ELSE coerced[1].error = "invalid id type"

\* C22, amended: a present id is accepted only if it is a string, a number
\* (integer or not) or null; every other id (boolean, object, array) is
\* rejected with "invalid id type".
C22_NumberIds ==
  (CoercedKnownFields /\ Present(decoded.id))
  => /\ IF decoded.id.t \in {"string", "number", "null"}
        THEN coerced[1].error # "invalid id type"
        ELSE coerced[1].error = "invalid id type"
     /\ coerced[1].error = NoError
          => /\ decoded.id.t \in {"string", "number", "null"}
             /\ coerced[1].jrpcMessage.id = decoded.id

\* the coercer was called with a Request whose id is 1.5 and accepted it
C22_Witness ==
  /\ CoercedKnownFields
  /\ decoded.id = Half(1)
  /\ decoded.method = Str("m")
  /\ coerced[1].error = NoError
  /\ coerced[1].jrpcMessage.id = Half(1)

\* C23: for a record with an id and no method that has passed the checks
\* of jsonrpc, unknown keys, id type and params: a present error must pass
\* the ErrorField validation; an id of null is rejected with "response
\* must have an id"; error and result both present is rejected with "both
\* result and error in response", neither present with "no result in
\* response"; in every other case the output is a Response carrying that
\* id and exactly one of result (null allowed) and error.
C23_ResponseRule ==
  (/\ CoercedKnownFields /\ WellTypedCall
   /\ decoded.id.t \in {"string", "number", "null"}
   /\ ~Present(decoded.method))
  => IF RuleFailure("7", decoded) # NoError
     THEN coerced[1].error = RuleFailure("7", decoded)
     ELSE IF decoded.id = Null
     THEN coerced[1].error = "response must have an id"
     ELSE IF Present(decoded.error) /\ Present(decoded.result)
     THEN coerced[1].error = "both result and error in response"
     ELSE IF ~Present(decoded.error) /\ ~Present(decoded.result)
     THEN coerced[1].error = "no result in response"
     ELSE /\ coerced[1].error = NoError
          /\ coerced[1].jrpcMessage
               = Message(decoded.id, Undefined, Undefined, decoded.result,
                         IF Present(decoded.error)
                         THEN ErrObj(decoded.error.code, decoded.error.message,
                                     decoded.error.data)
                         ELSE NoErrorField)
          /\ IsResponse(coerced[1].jrpcMessage)

\* the coercer was called with {jsonrpc: "2.0", id: 1, result: null} and
\* returned a Response whose result is null
C23_Witness ==
  /\ CoercedKnownFields
  /\ coerced[1].error = NoError
  /\ decoded.result = Null
  /\ coerced[1].jrpcMessage
       = Message(Num(1), Undefined, Undefined, Null, NoErrorField)

\* C24: for a record with jsonrpc "2.0", only known fields and no id: if
\* error or result is present the value is rejected, never classified as a
\* Notification; otherwise, method and params having passed their type
\* checks, a present method gives a Notification carrying that method and
\* the (optional) params, and an absent one "no method in notification".
C24_NotificationRule ==
  (CoercedKnownFields /\ ~Present(decoded.id))
  => IF Present(decoded.error) \/ Present(decoded.result)
     THEN /\ coerced[1].error # NoError
          /\ coerced[1].jrpcMessage = NoMessage
     ELSE WellTypedCall
          => IF Present(decoded.method)
             THEN /\ coerced[1].error = NoError
                  /\ coerced[1].jrpcMessage
                       = Message(Undefined, decoded.method, decoded.params,
                                 Undefined, NoErrorField)
             ELSE coerced[1].error = "no method in notification"

\* the coercer was called with {jsonrpc: "2.0", method: "m"} and returned
\* a Notification without params
C24_Witness ==
  /\ CoercedKnownFields
  /\ ~Present(decoded.id)
  /\ coerced[1].error = NoError
  /\ coerced[1].jrpcMessage
       = Message(Undefined, Str("m"), Undefined, Undefined, NoErrorField)

\* C25: the ErrorField validation accepts exactly the objects with an
\* integer code and a string message and returns {code, message, data};
\* each deviation has its own failure, checked in the order: no object or
\* null, code no number, code no integer, message no string; the coercer
\* reports that failure for a record that got as far as the validation.
C25_ErrorFieldValidation ==
  (coerced # <<>> /\ Present(decoded.error))
  => LET validated == coerceErrorField(decoded.error)
     IN /\ validated.error = RuleFailure("7", decoded)
        /\ validated.error = NoError
             <=> /\ decoded.error.t \in {"object", "array"}
                 /\ IsInteger(decoded.error.code)
                 /\ decoded.error.message.t = "string"
        /\ validated.error = NoError
             => validated.errorField
                  = ErrObj(decoded.error.code, decoded.error.message,
                           decoded.error.data)
        /\ validated.error # NoError => validated.errorField = NoErrorField
        /\ (/\ CoercedKnownFields /\ WellTypedCall
            /\ decoded.id.t \in {"undefined", "string", "number", "null"}
            /\ validated.error # NoError)
             => coerced[1].error = validated.error

\* the coercer was called with an ErrorResponse whose code is 1.5 and
\* reported the code
C25_Witness ==
  /\ CoercedKnownFields
  /\ decoded.id = Num(1)
  /\ decoded.error = ErrObj(Half(1), Str("Invalid Request"), Undefined)
  /\ coerced[1].error = "error.code is not an integer"

\* the callbacks a dispatcher chooses among
ServerCallbacks ==
  {"handleUnknownRequest", "handleUnknownNotification",
   "handleParametersParseError", "handler"}

\* the registry the dispatcher of the accepted call belongs to
Registry ==
  IF decoded.id.t = "undefined"
  THEN NotificationDefinitions ELSE RequestDefinitions

\* C26: a registry server dispatcher invokes, for each dispatched message,
\* exactly one of the unknown-method fallback, the decode-failure fallback
\* and the registered handler: the unknown-method fallback iff the method
\* name is not in the registry, whatever string it is; the decode-failure
\* fallback iff the method is registered and decoding the params fails;
\* otherwise the handler, with the decoded value; for a request the
\* outcome is then {result: the encoded return value, error: undefined}.
C26_ExactlyOneCallback ==
  dispatched # <<>>
  => LET out == dispatched[1]
         registered == decoded.method.s \in DOMAIN Registry
         decodes ==
           parse(Registry[decoded.method.s].paramsParser, decoded.params)
     IN /\ out.invoked \in ServerCallbacks
        /\ ~out.threw
        /\ out.invoked \in {"handleUnknownRequest",
                             "handleUnknownNotification"}
             <=> ~registered
        /\ out.invoked = "handleParametersParseError"
             <=> (registered /\ decodes.error # NoError)
        /\ out.invoked = "handler"
             => /\ out.value = decodes.value
                /\ decoded.id.t # "undefined"
                     => \E returned \in HandlerReturns :
                          out.response
                            = Response(format(Registry[decoded.method.s]
                                                .resultParser, returned),
                                       NoErrorField)

\* C27: a typed client call of the registered method m with value p makes
\* exactly one request() (or notify(), for a notification) with method m
\* and params = the encoded p; when the engine outcome is a SuccessResponse
\* with result r the caller resolves with {error: undefined, result: the
\* decoded r} if decoding succeeds and with "failed to parse result"
\* otherwise, and when it is a transport failure with "failed to execute
\* request" whose cause is that failure.
C27_TypedClientCall ==
  [][/\ \A name \in DOMAIN Caller.client.requests, value \in TypedParams,
           sendThrows \in BOOLEAN :
          LET call == clientRequest(Caller.client.requests, name, value)
          IN (/\ requestIdCounter < MaxRequests
              /\ request(call.method, call.params, call.timeoutMs,
                         sendThrows))
             => /\ sent' = <<Message(Num(requestIdCounter), Str(name),
                                     Obj(value.s), Undefined, NoErrorField)>>
                /\ timers'[requestIdCounter] = "none"
     /\ \A name \in DOMAIN Caller.client.notifications,
           value \in TypedParams :
          LET call == clientNotify(Caller.client.notifications, name, value)
          IN notify(call.method, call.params)
             => sent' = <<Message(Undefined, Str(name), Obj(value.s),
                                  Undefined, NoErrorField)>>
     /\ \A k \in DOMAIN resolutions' :
          \A name \in DOMAIN Caller.client.requests :
            LET result == Resolved(futures', resolutions'[k])
                resultParser == Caller.client.requests[name].resultParser
                outcome == clientMethod(resultParser, result)
                r == result.response.result
            IN timers'[resolutions'[k]] = "none"
               => /\ (result.error = NoError /\ r.t = "string")
                       => outcome = ClientResult(NoError, NoError, r)
                  /\ (result.error = NoError /\ r.t = "null")
                       => /\ outcome.error = "failed to parse result"
                          /\ outcome.result = Undefined
                  /\ TransportFailure(result)
                       => outcome = ClientResult("failed to execute request",
                                                 result.error, Undefined)]_vars

\* a request made without timeout was just answered with the result null,
\* which the result parser of method m turns down
C27_Witness ==
  /\ last.op = "receivedMessage"
  /\ resolutions = <<0>>
  /\ timers[0] = "none"
  /\ Resolved(futures, 0) = RequestResult(NoError, Response(Null, NoErrorField))
  /\ clientMethod("string", Resolved(futures, 0)).error
       = "failed to parse result"

\* a message as the receiving side decodes it
Wire(message) ==
  RawMessage("object", Str(message.jsonrpc), message.id, message.method,
             message.params, message.result, message.error, <<>>)

\* C28: side A dispatches its inbound calls through side A's registry
\* servers and builds its outgoing callers from side B's registries, and
\* side B is the mirror image; a typed call made through one side's
\* outgoing caller for method m reaches the other side's handler for m
\* with the decoded encoded params and never the unknown-method fallback.
C28_SidesMirrored ==
  /\ sideB(SideADefinitions, SideBDefinitions)
       = sideA(SideBDefinitions, SideADefinitions)
  /\ Caller.server = SideADefinitions
  /\ Caller.client = Receiver.server
  /\ \A requestId \in RequestIds, value \in TypedParams :
       /\ \A name \in DOMAIN Caller.client.requests :
            LET call == clientRequest(Caller.client.requests, name, value)
            IN (/\ dispatched # <<>>
                /\ decoded = Wire(Message(Num(requestId), call.method,
                                           call.params, Undefined,
                                           NoErrorField)))
               => /\ dispatched[1].invoked = "handler"
                  /\ dispatched[1].value = value
       /\ \A name \in DOMAIN Caller.client.notifications :
            LET call == clientNotify(Caller.client.notifications, name, value)
            IN (/\ dispatched # <<>>
                /\ decoded = Wire(Message(Undefined, call.method, call.params,
                                           Undefined, NoErrorField)))
               => /\ dispatched[1].invoked = "handler"
                  /\ dispatched[1].value = value

\* the Request of a typed call of m with value p reached the handler of
\* the receiving side with p
C28_Witness ==
  /\ decoded = Wire(Message(Num(1), Str("m"), Obj("p"), Undefined,
                            NoErrorField))
  /\ dispatched # <<>>
  /\ dispatched[1].invoked = "handler"
  /\ dispatched[1].value = Str("p")

\* C29: receivedMessage returns success for a valid inbound Request while
\* its handler is still unsettled; while handlers are suspended, request,
\* notify and close remain enabled, receivedMessage returns without
\* throwing, and the four take effect; the
\* responses to several inbound requests are sent in the order in which
\* the handlers complete, not in that of arrival, each with the id of its
\* own request.
C29_HandlersDoNotBlock ==
  [][/\ handlers # <<>>
        => /\ \A method \in Methods, params \in Params,
                 timeoutMs \in Timeouts :
                requestIdCounter < MaxRequests
                => ENABLED request(method, params, timeoutMs, FALSE)
           /\ \A method \in Methods, params \in Params :
                ENABLED notify(method, params)
           /\ ENABLED close
           /\ \A message \in ConcurrentMessages :
                ~closed => ~receivedMessageOutcome(Current, message).threw
     /\ \A message \in RequestMessages :
          (~closed /\ message.id.t # "null" /\ receivedMessage(message))
          => /\ last' = Last("receivedMessage", FALSE, NoError, message.id)
             /\ Len(handlers') = Len(handlers) + 1
             /\ handlers'[Len(handlers')].id = message.id
             /\ sent' = <<>>
     /\ handlers # <<>>
        => /\ last'.op = "request"
              => /\ Len(sent') = 1
                 /\ sent'[1].id = Num(requestIdCounter)
                 /\ PendingIds' = PendingIds \cup {requestIdCounter}
                 /\ handlers' = handlers
           /\ last'.op = "notify"
              => /\ Len(sent') = 1
                 /\ sent'[1].id = Undefined
                 /\ handlers' = handlers
           /\ (~closed /\ 0 \in PendingIds
               /\ receivedMessage(ResultResponse(Num(0), Str("ok"))))
              => /\ resolutions' = <<0>>
                 /\ handlers' = handlers
           /\ (~closed /\ last'.op = "close")
              => /\ closed'
                 /\ PendingIds' = {}
                 /\ handlers' = handlers
     /\ \A h \in DOMAIN handlers :
          (last'.op = "handled" /\ ~last'.threw
           /\ handlers' = Without(handlers, h))
          => /\ sent' \in {responseMessages(handlers[h].id, response) :
                             response \in HandlerResponses}
             /\ \A k \in DOMAIN sent' : sent'[k].id = handlers[h].id]_vars

\* the handler of the Request that arrived second completed first: its
\* response was sent with its id while the first handler is suspended
C29_Witness ==
  /\ last.op = "handled"
  /\ Len(handlers) = 1
  /\ handlers[1].id = Num(42)
  /\ Len(sent) = 1
  /\ sent[1].id = Str("r")

\* C30: request() after close() is not guarded: it allocates an id, sends
\* the Request and registers a pending request, so the pending table is
\* non-empty on a closed engine; without timeoutMs no later event resolves
\* the returned promise, with timeoutMs only the timeout does, with the
\* timeout failure.
C30_RequestAfterClose ==
  [][closed
     => /\ \A method \in Methods, params \in Params, timeoutMs \in Timeouts :
             (/\ requestIdCounter < MaxRequests
              /\ request(method, params, timeoutMs, FALSE))
             => /\ last' = Last("request", FALSE, NoError,
                                Num(requestIdCounter))
                /\ requestIdCounter' = requestIdCounter + 1
                /\ sent' = <<Message(Num(requestIdCounter), method, params,
                                     Undefined, NoErrorField)>>
                /\ PendingIds' = PendingIds \cup {requestIdCounter}
                /\ futures'[requestIdCounter]
                     = [returned |-> TRUE, resolved |-> <<>>]
                /\ closed'
        /\ \A i \in PendingIds :
             /\ timers[i] = "none"
                => /\ i \in PendingIds'
                   /\ futures'[i] = futures[i]
                   /\ timers'[i] = "none"
             /\ futures'[i] # futures[i]
                => /\ timers[i] = "armed"
                   /\ last' = Last("timeout", FALSE, NoError, Num(i))
                   /\ futures'[i].resolved
                        = <<RequestResult("timeout", NoResponse)>>
                   /\ i \notin PendingIds'
        /\ last'.op \in {"receivedMessage", "close"} => last'.threw]_vars

\* on a closed engine a request without timeoutMs was made and is pending,
\* and a receivedMessage has thrown since
C30_Witness ==
  /\ closed
  /\ last.op = "receivedMessage"
  /\ last.threw
  /\ \E i \in PendingIds :
       /\ timers[i] = "none"
       /\ futures[i] = [returned |-> TRUE, resolved |-> <<>>]

\* C34: if sendMessage throws inside request(), the exception leaves
\* request() (no promise is returned), the id is consumed, no pending
\* request is registered, and a timer armed for timeoutMs is not
\* cancelled: when it expires its callback finds no entry for the id.
C34_SendThrowsInRequest ==
  [][/\ \A method \in Methods, params \in Params, timeoutMs \in Timeouts :
          (/\ requestIdCounter < MaxRequests
           /\ request(method, params, timeoutMs, TRUE))
          => /\ last' = Last("request", TRUE, "sendMessage failed",
                             Num(requestIdCounter))
             /\ futures'[requestIdCounter].returned = FALSE
             /\ requestIdCounter' = requestIdCounter + 1
             /\ pendingRequests' = pendingRequests
             /\ requestIdCounter \notin PendingIds'
             /\ timers'[requestIdCounter]
                  = IF timeoutMs.t # "undefined" THEN "armed" ELSE "none"
     /\ \A i \in RequestIds :
          (i < requestIdCounter /\ ~futures[i].returned)
          => /\ i \notin PendingIds
             /\ ~futures'[i].returned
             /\ timers[i] = "armed"
                => \/ timers'[i] = "armed"
                   \/ /\ timers'[i] = "fired"
                      /\ last'.op = "timeout"
                      /\ last'.threw
                      /\ i \notin PendingIds'
                      /\ futures' = futures]_vars

\* the timer of a request whose sendMessage threw has expired, and its
\* callback found no entry
C34_Witness ==
  /\ last.op = "timeout"
  /\ last.threw
  /\ \E i \in RequestIds :
       /\ last.id = Num(i)
       /\ i < requestIdCounter
       /\ ~futures[i].returned
       /\ timers[i] = "fired"
       /\ i \notin PendingIds

\* C35: the pending table is keyed by the string form of the id: a
\* Response whose id is the string "n" resolves the pending request that
\* was sent with the integer id n, exactly as the Response with the
\* integer id n does.
C35_StringIdMatches ==
  [][\A i \in PendingIds :
       LET asString == ResultResponse(Str(ToString(i)), Str("ok"))
           asNumber == ResultResponse(Num(i), Str("ok"))
       IN (~closed /\ receivedMessage(asString))
          => /\ receivedMessageOutcome(Current, asString).st
                  = receivedMessageOutcome(Current, asNumber).st
             /\ last' = Last("receivedMessage", FALSE, NoError,
                             Str(ToString(i)))
             /\ resolutions' = <<i>>
             /\ futures'[i].resolved
                  = <<RequestResult(NoError,
                                    Response(Str("ok"), NoErrorField))>>
             /\ i \notin PendingIds']_vars

\* the Response with the string id "1" has just resolved the request that
\* was sent with the integer id 1
C35_Witness ==
  /\ last = Last("receivedMessage", FALSE, NoError, Str("1"))
  /\ resolutions = <<1>>
  /\ 1 \notin PendingIds
  /\ futures[1].resolved
       = <<RequestResult(NoError, Response(Str("ok"), NoErrorField))>>

\* C36: close() does not cancel the running request handlers: a handler
\* that completes with a result or an error after the engine was closed
\* still has its SuccessResponse or ErrorResponse passed to sendMessage,
\* so a closed engine sends messages.
C36_ResponsesAfterClose ==
  [][/\ (~closed /\ last'.op = "close")
        => /\ closed'
           /\ handlers' = handlers
     /\ closed
        => \A h \in DOMAIN handlers : \A response \in HandlerResponses :
             handleRequestThen(h, response)
             => /\ closed'
                /\ response.error.t # "undefined"
                   => sent' = <<Message(handlers[h].id, Undefined, Undefined,
                                        Undefined, response.error)>>
                /\ (response.error.t = "undefined"
                    /\ response.result.t # "undefined")
                   => sent' = <<Message(handlers[h].id, Undefined, Undefined,
                                        response.result, NoErrorField)>>]_vars

\* on a closed engine a handler has completed and its SuccessResponse was
\* sent
C36_Witness ==
  /\ closed
  /\ last.op = "handled"
  /\ ~last.threw
  /\ sent = <<Message(last.id, Undefined, Undefined, Str("done"),
                      NoErrorField)>>

\* C37: if the promise of the request handler rejects, the engine sends no
\* response for that Request; receivedMessage had returned success when
\* it started the handler, and the pending table, the id counter and the
\* closed flag are unchanged.
C37_RejectedHandlerUnanswered ==
  [][/\ Len(handlers') > Len(handlers)
        => /\ last'.op = "receivedMessage"
           /\ ~last'.threw
           /\ last'.error = NoError
           /\ handlers'[Len(handlers')].id = last'.id
     /\ \A h \in DOMAIN handlers :
          handleRequestRejected(h)
          => /\ sent' = <<>>
             /\ handlers' = Without(handlers, h)
             /\ UNCHANGED <<pendingRequests, requestIdCounter, closed,
                            futures, timers>>]_vars

\* the handler of the Request 42 has rejected and nothing was sent
C37_Witness ==
  /\ last = Last("handled", TRUE, "handler rejected", Num(42))
  /\ sent = <<>>
  /\ handlers = <<>>

\* C38: when a registered typed handler completes and the encoded return
\* value is undefined, the dispatcher's outcome has neither result nor
\* error and the engine sends no response for that Request; a pending
\* request (as the calling peer's is) leaves the table only by a Response,
\* its timeout or close.
C38_UndefinedResultUnanswered ==
  [][/\ \A h \in DOMAIN handlers :
          \A returned \in HandlerReturns, fallback \in FallbackResponses :
            LET definitions == Receiver.server.requests
                outcome == handleRequest(definitions, handlers[h].method,
                                         handlers[h].params, fallback,
                                         returned)
            IN (/\ outcome.invoked = "handler"
                /\ format(definitions[handlers[h].method.s].resultParser,
                          returned) = Undefined
                /\ handleRequestThen(h, outcome.response))
               => /\ outcome.response.result = Undefined
                  /\ outcome.response.error = NoErrorField
                  /\ sent' = <<>>
                  /\ handlers' = Without(handlers, h)
     /\ \A i \in PendingIds :
          i \notin PendingIds'
          => \/ /\ last'.op = "receivedMessage"
                /\ ToKey(last'.id) = ToString(i)
             \/ /\ last' = Last("timeout", FALSE, NoError, Num(i))
                /\ futures'[i].resolved
                     = <<RequestResult("timeout", NoResponse)>>
             \/ /\ last'.op = "close"
                /\ futures'[i].resolved
                     = <<RequestResult("connection closed", NoResponse)>>]_vars

\* the handler of the Request 42 for the registered method m has completed
\* without a result and nothing was sent
C38_Witness ==
  /\ last = Last("handled", FALSE, NoError, Num(42))
  /\ sent = <<>>
  /\ handlers = <<>>
  /\ handleRequest(Receiver.server.requests, Str("m"), Obj("p"),
                   NoResponse, Undefined)
       = Dispatched("handler", FALSE, Str("p"), NoResponse)

\* C39: a typed request caller calls request() without timeoutMs, so no
\* timer is armed for a typed call: as long as no Response with its key
\* arrives, the call stays unresolved in every step but close, which
\* resolves it with "failed to execute request" caused by "connection
\* closed".
C39_TypedCallWithoutTimer ==
  [][/\ \A name \in DOMAIN Caller.client.requests, value \in TypedParams :
          LET call == clientRequest(Caller.client.requests, name, value)
          IN (/\ requestIdCounter < MaxRequests
              /\ request(call.method, call.params, call.timeoutMs, FALSE))
             => /\ timers'[requestIdCounter] = "none"
                /\ requestIdCounter \in PendingIds'
     /\ \A i \in PendingIds :
          timers[i] = "none"
          => /\ timers'[i] = "none"
             /\ (last'.op = "receivedMessage"
                 => ToKey(last'.id) # ToString(i))
                => IF ~closed /\ last'.op = "close"
                   THEN /\ i \notin PendingIds'
                        /\ \A name \in DOMAIN Caller.client.requests :
                             clientMethod(
                               Caller.client.requests[name].resultParser,
                               Resolved(futures', i))
                               = ClientResult("failed to execute request",
                                              "connection closed", Undefined)
                   ELSE /\ i \in PendingIds'
                        /\ futures'[i] = futures[i]]_vars

\* a typed call that was never answered has just been resolved by close
C39_Witness ==
  /\ closed
  /\ last.op = "close"
  /\ ~last.threw
  /\ resolutions = <<0>>
  /\ timers[0] = "none"
  /\ Resolved(futures, 0) = RequestResult("connection closed", NoResponse)

\* C33: request() calls sendMessage before it registers the pending
\* request: a Response for the id i of the Request that receivedMessage is
\* fed from inside sendMessage is turned down with "received response for
\* non-pending id" and resolves nothing; the request is registered
\* afterwards and stays pending until a later Response, its timeout or
\* close.
C33_ReentrantResponseLost ==
  [][/\ \A method \in Methods, params \in Params, timeoutMs \in Timeouts :
          LET i == requestIdCounter
              message == ResultResponse(Num(i), Str("ok"))
          IN (/\ ~closed
              /\ i < MaxRequests
              /\ requestReentrant(method, params, timeoutMs, message))
             => /\ i \notin PendingIds
                /\ reentered'[Len(reentered')]
                     = Reentered(i, message, FALSE,
                                 "received response for non-pending id")
                /\ resolutions' = <<>>
                /\ last' = Last("request", FALSE, NoError, Num(i))
                /\ PendingIds' = PendingIds \cup {i}
                /\ futures'[i] = [returned |-> TRUE, resolved |-> <<>>]
     /\ \A i \in PendingIds :
          i \notin PendingIds'
          => \/ /\ last' = Last("receivedMessage", FALSE, NoError, Num(i))
                /\ futures'[i].resolved
                     = <<RequestResult(NoError,
                                       Response(Str("ok"), NoErrorField))>>
             \/ /\ last'.op = "request"
                /\ reentered'[Len(reentered')].id = Num(i)
                /\ futures'[i].resolved
                     = <<RequestResult(NoError,
                                       Response(Str("ok"), NoErrorField))>>
             \/ /\ last' = Last("timeout", FALSE, NoError, Num(i))
                /\ futures'[i].resolved
                     = <<RequestResult("timeout", NoResponse)>>
             \/ /\ last'.op = "close"
                /\ futures'[i].resolved
                     = <<RequestResult("connection closed", NoResponse)>>]_vars

\* the Response to the Request 0 arrived while sendMessage ran and was
\* turned down; the request is pending
C33_Witness ==
  /\ last = Last("request", FALSE, NoError, Num(0))
  /\ reentered = <<Reentered(0, ResultResponse(Num(0), Str("ok")), FALSE,
                             "received response for non-pending id")>>
  /\ 0 \in PendingIds
  /\ futures[0] = [returned |-> TRUE, resolved |-> <<>>]

\* C31: in the WebSocket adapter every inbound socket message for which
\* parser.parse or receivedMessage returns a failure is fatal for the
\* channel: the adapter sets closedByUs, closes the socket and calls
\* onConnectionError exactly once for that message; onRemoteClose is not
\* called afterwards, and the later close event of the socket closes the
\* engine, so that every pending request resolves with "connection
\* closed".
C31_InboundFailureIsFatal ==
  [][/\ \A data \in SocketData :
          LET parsed == jsonParse(data)
              failure ==
                IF parsed.error # NoError
                THEN "failed to parse WebSocket message"
                ELSE IF /\ ~receivedMessageOutcome(Current,
                                                   parsed.message).threw
                        /\ receivedMessageOutcome(Current,
                                                  parsed.message).error
                             # NoError
                THEN "failed to handle JRPC message"
                ELSE NoError
          IN (~closedByUs /\ failure # NoError /\ socketMessage(data))
             => /\ closedByUs'
                /\ readyState' = "CLOSING"
                /\ connectionErrors' = Append(connectionErrors, failure)
                /\ remoteCloses' = remoteCloses
                /\ UNCHANGED <<closed, pendingRequests, futures>>
     /\ closedByUs
        => /\ closedByUs'
           /\ remoteCloses' = remoteCloses
           /\ connectionErrors' = connectionErrors
     /\ (readyState # "CLOSED" /\ readyState' = "CLOSED")
        => /\ closed'
           /\ PendingIds' = {}
           /\ \A i \in PendingIds :
                futures'[i].resolved
                  = <<RequestResult("connection closed", NoResponse)>>]_vars

\* after a message that receivedMessage turned down the socket has closed:
\* the pending request was resolved, onConnectionError was called once and
\* onRemoteClose never
C31_Witness ==
  /\ readyState = "CLOSED"
  /\ closedByUs
  /\ connectionErrors = <<"failed to handle JRPC message">>
  /\ remoteCloses = 0
  /\ last.op = "close"
  /\ resolutions = <<0>>
  /\ Resolved(futures, 0) = RequestResult("connection closed", NoResponse)

\* C32: the WebSocket adapter preserves the call order: every message is
\* passed to socket.send at most once, and the sequence passed to
\* socket.send is a subsequence, in the same order, of the sequence of
\* sendMessage calls.
C32_CallOrderPreserved ==
  /\ \A k \in DOMAIN socketSent :
       /\ socketSent[k].call \in DOMAIN sendCalls
       /\ socketSent[k].data = sendCalls[socketSent[k].call]
  /\ \A j, k \in DOMAIN socketSent :
       j < k => socketSent[j].call < socketSent[k].call
  /\ \A k \in DOMAIN sendQueue :
       /\ sendQueue[k].call \in DOMAIN sendCalls
       /\ \A j \in DOMAIN socketSent :
            socketSent[j].call < sendQueue[k].call

\* the first two messages were queued and sent in their order, the third
\* was queued after the socket had left OPEN and dropped when it closed
C32_Witness ==
  /\ readyState = "CLOSED"
  /\ Len(sendCalls) = 3
  /\ Len(socketSent) = 2
  /\ socketSent[1].call = 1
  /\ socketSent[2].call = 2
  /\ sendQueue = <<>>

\* C40: the send queue of the WebSocket adapter is flushed only from
\* inside a sendMessage call: a message queued while the socket is not
\* OPEN stays queued until a later sendMessage call with the socket OPEN
\* (the socket becoming OPEN does not flush it), and is dropped without
\* being sent if the close event of the socket comes first.
C40_FlushedOnlyBySendMessage ==
  [][/\ (readyState = "CONNECTING" /\ readyState' = "OPEN")
        => /\ sendQueue' = sendQueue
           /\ socketSent' = socketSent
     /\ socketSent' # socketSent
        => /\ readyState = "OPEN"
           /\ Len(sendCalls') = Len(sendCalls) + 1
           /\ socketSent'
                = socketSent \o sendQueue
                    \o <<[call |-> Len(sendCalls'),
                          data |-> sendCalls'[Len(sendCalls')]]>>
           /\ sendQueue' = <<>>
     /\ (Len(sendCalls') > Len(sendCalls) /\ readyState # "OPEN")
        => /\ socketSent' = socketSent
           /\ sendQueue'
                = Append(sendQueue, [call |-> Len(sendCalls'),
                                     data |-> sendCalls'[Len(sendCalls')]])
     /\ (sendCalls' = sendCalls /\ readyState' # "CLOSED")
        => sendQueue' = sendQueue
     /\ (readyState # "CLOSED" /\ readyState' = "CLOSED")
        => /\ sendQueue' = <<>>
           /\ socketSent' = socketSent]_vars

\* a message was queued while the socket was connecting; the socket is
\* open now and the message is still queued
C40_Witness ==
  /\ readyState = "OPEN"
  /\ last.op = "open"
  /\ Len(sendQueue) = 1
  /\ sendQueue[1].call = 1
  /\ socketSent = <<>>

====
